---- MODULE Spec2Model ----
(***************************************************************************)
(* Verification model of the AudioEmotion real-time pipeline:              *)
(*   - the shared SPSC ring buffer (utils/RingBuffer.js, the copy of its   *)
(*     producer side in public/audio-processor.js and of its consumer      *)
(*     side in workers/inference.js),                                      *)
(*   - the hop schedule of the emotion store (stores/emotionStore.js with  *)
(*     utils/inference.js) and of the inference worker.                    *)
(* Sizes are scaled down; every scaled size is a named definition.         *)
(***************************************************************************)
EXTENDS Integers, Sequences, FiniteSets, TLC

\* ------------------------------------------------------------------ bounds
MaxCapacity == 3      \* ring buffers of capacity 2..MaxCapacity
MaxLen      == 2      \* longest samples / destination array of a call
MaxChunk    == 4      \* chunk sizes 1..MaxChunk of the fill scenario
MaxPushed   == 16     \* the fill scenario stops pushing past this total
MaxOffered  == 5      \* samples the producer offers in the concurrent runs
MaxTimeline == 3      \* samples the capture path delivers to the store
MaxArrive   == 2      \* longest 'samples' message
MaxInFlight == 1      \* processAudio calls awaiting the model at one time
MaxHops     == 3      \* hops started in one run of the model checker
MaxTicks    == 3      \* clock steps
MaxTimers   == 2      \* setInterval calls
MaxLoads    == 1      \* initializeWorker calls awaiting the model at one time
MaxCalls    == 2      \* audio store calls suspended at an await at one time
MaxContexts == 3      \* AudioContexts created in one run
MaxDecay    == 20     \* silence hops a session went through before the run
MaxRuns     == 2      \* runInference calls in one run of the hop function
MaxDelivered == 5     \* samples delivered to a running hop schedule

\* ------------------------------------------------- scaled program constants
INFERENCE_WINDOW_SAMPLES == 2   \* 2376 in the source
TARGET_SAMPLE_RATE == 16000
HOP_DURATION_HALVES == 1        \* HOP_DURATION_SECONDS = 0.5 = 1/2
VOICE_HOLD_MS == 800
TickMs == 400                   \* one clock step
\* EMA_ALPHA = 0.2 = AlphaNum / AlphaDen
AlphaNum == 1
AlphaDen == 5
\* NOISE_GATE_THRESHOLD = 0.01 = 1 / GateDen
GateDen == 100

VARIABLES
    \* ---- shared memory of the ring buffer (SharedArrayBuffer)
    capacity,       \* controlBuffer[2]
    writePtr,       \* controlBuffer[0]
    readPtr,        \* controlBuffer[1]
    dataBuffer,     \* Float32Array view, index 0..capacity-1
    \* ---- the capture processor (AudioWorkletProcessor)
    isInitialized,  \* AudioProcessor.isInitialized
    procControlBuffer, \* AudioProcessor.controlBuffer is set (not null)
    port,           \* messages the processor posted in the step just taken
    \* ---- operation just completed: name, return value, destination
    ret,
    \* ---- the input signal: value of the next sample the source delivers
    nextSample,
    \* ---- fill scenario bookkeeping
    chunk, pushed, accepted, dropped,
    \* ---- producer and consumer running concurrently, one step at a time
    prod,           \* locals of the write call in progress
    cons,           \* locals of the read call in progress
    writtenLog,     \* samples accepted by the writes that have returned
    readLog,        \* samples returned by the reads that have returned
    \* ---- utils/inference.js module state
    session,        \* "null" or "loaded"
    infInitialized, \* isInitialized
    lastVoicedTimestamp,
    probabilitySmoother,       \* probabilitySmoother.state: "null" or a vector
    \* ---- emotion store
    store,          \* isModelLoaded, isInferenceRunning, inferenceIntervalId,
                    \* sharedBuffer, error, audioBuffer, predictionCount
    prediction,     \* what handlePrediction received last, "none" before
    \* ---- event loop of the main thread
    timers,         \* ids of the live setInterval timers
    loads,          \* initializeWorker calls awaiting the model load
    hops,           \* processAudio calls awaiting session.run
    now,            \* Date.now()
    \* ---- bookkeeping
    timeline,       \* samples delivered so far
    hopCount,       \* hops started so far
    timerCount,     \* setInterval calls so far
    awaitFirst,     \* a restart happened and no prediction was produced since
    \* ---- the capture processor's resampler
    resampleBuffer, \* AudioProcessor.resampleBuffer, the carry-over
    resampleRatio,  \* AudioProcessor.resampleRatio = sampleRate / 16000
    sourceStream,   \* the input samples given to resample() (SpecResample)
    resampled,      \* the output samples it returned (SpecResample)
    \* ---- audio store and the Web Audio objects it created
    audio,          \* the store's fields
    contexts,       \* every AudioContext created, with its worklet node
    calls,          \* asynchronous store calls suspended at an await
    \* ---- workers/inference.js: the worker's poll loop
    worker          \* isRunning, lastVoicedTimestamp, the inferenceLoop
                    \* calls that have not returned, the messages posted to
                    \* the worker and not yet handled, its last postMessage

rbVars   == <<capacity, writePtr, readPtr, dataBuffer>>
procVars == <<isInitialized, procControlBuffer, port>>
fillVars == <<chunk, pushed, accepted, dropped>>
concVars == <<prod, cons, writtenLog, readLog>>
infVars  == <<session, infInitialized, lastVoicedTimestamp, probabilitySmoother>>
loopVars == <<timers, loads, hops, now>>
bookVars == <<timeline, hopCount, timerCount, awaitFirst>>
engVars  == <<infVars, store, prediction, loopVars, bookVars>>
capVars  == <<audio, contexts, calls>>
streamVars == <<sourceStream, resampled>>
workerVars == <<worker>>
resampleVars == <<resampleBuffer, resampleRatio, streamVars>>

\* ------------------------------------------------------------ helper sets
Min(a, b) == IF a < b THEN a ELSE b
Max(a, b) == IF a > b THEN a ELSE b

\* The ring buffer never inspects a sample, so two sample values are enough
\* to tell samples apart: the input signal alternates 1, 2, 1, 2, ...
\* (0 is the initial content of the shared memory).
SampleValues == {1, 2}
Period == Cardinality(SampleValues)

\* the next len samples of the input signal, starting with value `start`
Ramp(start, len) == [i \in 1..len |-> ((start + i - 2) % Period) + 1]

\* the input signal after len more samples
Advance(start, len) == ((start + len - 1) % Period) + 1

\* new Float32Array(n): zero filled
ZeroArray(n) == [i \in 1..n |-> 0]

\* ------------------------------------------------- RingBuffer.js: counting
\* mutant: no slot is kept free to tell full from empty
availableWrite_NoReserve(w, r, cap) ==
    IF r <= w THEN cap - w + r ELSE r - w

\* RingBufferWriter.availableWrite(writePtr, readPtr)
availableWrite(w, r, cap) ==
    IF r <= w THEN cap - w + r - 1 ELSE r - w - 1

\* RingBufferWriter.availableRead / RingBufferReader.availableRead
availableRead(w, r, cap) ==
    IF w >= r THEN w - r ELSE cap - r + w

\* ---------------------------------------------------- RingBuffer.js: write
\* the copy loop of RingBufferWriter.write: for (i = 0; i < toWrite; i++)
RECURSIVE WriteLoop(_, _, _, _, _, _)
WriteLoop(data, samples, writeIndex, i, toWrite, cap) ==
    IF i < toWrite
    THEN WriteLoop([data EXCEPT ![writeIndex] = samples[i + 1]], samples,
                   (writeIndex + 1) % cap, i + 1, toWrite, cap)
    ELSE [data |-> data, writeIndex |-> writeIndex]

\* mutant: the free space is ignored, unread samples are overwritten
WriterWrite_Overrun(data, w, r, cap, samples) ==
    LET toWrite == Len(samples)
    IN  IF toWrite = 0
        THEN [data |-> data, writePtr |-> w, n |-> 0]
        ELSE LET res == WriteLoop(data, samples, w, 0, toWrite, cap)
             IN  [data |-> res.data, writePtr |-> res.writeIndex, n |-> toWrite]

\* RingBufferWriter.write(samples): the new memory and the return value
WriterWrite(data, w, r, cap, samples) ==
    LET available == availableWrite(w, r, cap)
        toWrite   == Min(Len(samples), available)
    IN  IF toWrite = 0
        THEN [data |-> data, writePtr |-> w, n |-> 0]
        ELSE LET res == WriteLoop(data, samples, w, 0, toWrite, cap)
             IN  [data |-> res.data, writePtr |-> res.writeIndex, n |-> toWrite]

\* ----------------------------------------------------- RingBuffer.js: read
\* the copy loop of RingBufferReader.read
RECURSIVE ReadLoop(_, _, _, _, _, _)
ReadLoop(data, destination, readIndex, i, toRead, cap) ==
    IF i < toRead
    THEN ReadLoop(data, [destination EXCEPT ![i + 1] = data[readIndex]],
                  (readIndex + 1) % cap, i + 1, toRead, cap)
    ELSE [destination |-> destination, readIndex |-> readIndex]

\* mutant: the copy starts one slot after the read cursor
ReaderRead_OffByOne(data, w, r, cap, destination) ==
    LET available == IF w >= r THEN w - r ELSE cap - r + w
        toRead    == Min(Len(destination), available)
    IN  IF toRead = 0
        THEN [destination |-> destination, readPtr |-> r, n |-> 0]
        ELSE LET res == ReadLoop(data, destination, (r + 1) % cap, 0, toRead,
                                 cap)
             IN  [destination |-> res.destination, readPtr |-> res.readIndex,
                  n |-> toRead]

\* RingBufferReader.read(destination)
ReaderRead(data, w, r, cap, destination) ==
    LET available == IF w >= r THEN w - r ELSE cap - r + w
        toRead    == Min(Len(destination), available)
    IN  IF toRead = 0
        THEN [destination |-> destination, readPtr |-> r, n |-> 0]
        ELSE LET res == ReadLoop(data, destination, r, 0, toRead, cap)
             IN  [destination |-> res.destination, readPtr |-> res.readIndex,
                  n |-> toRead]

\* the copy loop of RingBufferReader.peek
RECURSIVE PeekLoop(_, _, _, _, _, _)
PeekLoop(data, destination, readIndex, i, toPeek, cap) ==
    IF i < toPeek
    THEN PeekLoop(data, [destination EXCEPT ![i + 1] = data[readIndex]],
                  (readIndex + 1) % cap, i + 1, toPeek, cap)
    ELSE [destination |-> destination, readIndex |-> readIndex]

\* mutant: peek stores the advanced read cursor, as read does
ReaderPeek_Advances(data, w, r, cap, destination) ==
    LET available == IF w >= r THEN w - r ELSE cap - r + w
        toPeek    == Min(Len(destination), available)
    IN  IF toPeek = 0
        THEN [destination |-> destination, readPtr |-> r, n |-> 0]
        ELSE LET res == PeekLoop(data, destination, r, 0, toPeek, cap)
             IN  [destination |-> res.destination, readPtr |-> res.readIndex,
                  n |-> toPeek]

\* RingBufferReader.peek(destination): the read cursor is not stored
ReaderPeek(data, w, r, cap, destination) ==
    LET available == IF w >= r THEN w - r ELSE cap - r + w
        toPeek    == Min(Len(destination), available)
    IN  IF toPeek = 0
        THEN [destination |-> destination, readPtr |-> r, n |-> 0]
        ELSE LET res == PeekLoop(data, destination, r, 0, toPeek, cap)
             IN  [destination |-> res.destination, readPtr |-> r, n |-> toPeek]

\* ------------------------------------------- audio-processor.js: producer
\* mutant: the processor keeps no slot free, a full buffer looks empty
writeToBuffer_NoReserve(init, data, w, r, cap, samples) ==
    IF ~init
    THEN [data |-> data, writePtr |-> w, n |-> 0]
    ELSE LET available == IF r <= w THEN cap - w + r ELSE r - w
             toWrite   == Min(Len(samples), available)
         IN  IF toWrite = 0
             THEN [data |-> data, writePtr |-> w, n |-> 0]
             ELSE LET res == WriteLoop(data, samples, w, 0, toWrite, cap)
                  IN  [data |-> res.data, writePtr |-> res.writeIndex,
                       n |-> toWrite]

\* AudioProcessor.writeToBuffer(samples)
writeToBuffer(init, data, w, r, cap, samples) ==
    IF ~init
    THEN [data |-> data, writePtr |-> w, n |-> 0]
    ELSE LET available == IF r <= w THEN cap - w + r - 1 ELSE r - w - 1
             toWrite   == Min(Len(samples), available)
         IN  IF toWrite = 0
             THEN [data |-> data, writePtr |-> w, n |-> 0]
             ELSE LET res == WriteLoop(data, samples, w, 0, toWrite, cap)
                  IN  [data |-> res.data, writePtr |-> res.writeIndex,
                       n |-> toWrite]

\* ------------------------------------------- workers/inference.js: consumer
\* readFromBuffer(destination)
readFromBuffer(ctl, data, w, r, cap, destination) ==
    IF ~ctl THEN [destination |-> destination, readPtr |-> r, n |-> 0] ELSE
    LET available == IF w >= r THEN w - r ELSE cap - r + w
        toRead    == Min(Len(destination), available)
    IN  IF toRead = 0
        THEN [destination |-> destination, readPtr |-> r, n |-> 0]
        ELSE LET res == ReadLoop(data, destination, r, 0, toRead, cap)
             IN  [destination |-> res.destination, readPtr |-> res.readIndex,
                  n |-> toRead]

\* getAvailableSamples()
getAvailableSamples(ctl, w, r, cap) ==
    IF ~ctl THEN 0
    ELSE IF w >= r THEN w - r ELSE cap - r + w

\* --------------------------------------------- utils/emotions.js, labels
EMOTION_LABELS == <<"angry", "disgust", "fearful", "happy", "neutral", "sad",
                    "surprised", "calm">>
Labels == {EMOTION_LABELS[i] : i \in 1..Len(EMOTION_LABELS)}

\* Probabilities are fractions with denominator Scale.  Every EMA blend
\* divides by AlphaDen once, so fewer than MaxHops blends of a model output
\* are exact; beyond that a blend rounds to the nearest multiple of
\* 1/Scale, as double arithmetic rounds to the nearest representable value.
Scale == AlphaDen ^ MaxHops

initialEmotions == [l \in Labels |-> 0]
NEUTRAL_VECTOR == [l \in Labels |-> IF l = "neutral" THEN Scale ELSE 0]

\* probabilitiesToMap(softmax(logits)) of a model output: the model is
\* certain of one label
OneHot(label) == [l \in Labels |-> IF l = label THEN Scale ELSE 0]
ModelOutputs == {OneHot("happy"), OneHot("sad")}

\* ------------------------------------------- utils/inference.js, smoothing
\* new EmaSmoother(alpha): state = null
NoState == [hasState |-> FALSE, state |-> initialEmotions]

\* mutant: the first update blends with an all-zero state
EmaUpdate_BlendFirst(sm, values) ==
    [l \in Labels |->
        (AlphaNum * values[l] + (AlphaDen - AlphaNum) * sm.state[l]
            + AlphaDen \div 2) \div AlphaDen]

\* EmaSmoother.update(values): the new state, which is also the result
EmaUpdate(sm, values) ==
    IF ~sm.hasState
    THEN values
    ELSE [l \in Labels |->
            (AlphaNum * values[l] + (AlphaDen - AlphaNum) * sm.state[l]
                + AlphaDen \div 2) \div AlphaDen]

RECURSIVE DominantLoop(_, _, _, _)
DominantLoop(emotions, i, dominant, confidence) ==
    IF i > Len(EMOTION_LABELS)
    THEN [dominant |-> dominant, confidence |-> confidence]
    ELSE IF emotions[EMOTION_LABELS[i]] > confidence
         THEN DominantLoop(emotions, i + 1, EMOTION_LABELS[i],
                           emotions[EMOTION_LABELS[i]])
         ELSE DominantLoop(emotions, i + 1, dominant, confidence)

\* mutant: `>=` in place of `>`, the last maximum wins
RECURSIVE DominantLoop_LastMax(_, _, _, _)
DominantLoop_LastMax(emotions, i, dominant, confidence) ==
    IF i > Len(EMOTION_LABELS)
    THEN [dominant |-> dominant, confidence |-> confidence]
    ELSE IF emotions[EMOTION_LABELS[i]] >= confidence
         THEN DominantLoop_LastMax(emotions, i + 1, EMOTION_LABELS[i],
                                   emotions[EMOTION_LABELS[i]])
         ELSE DominantLoop_LastMax(emotions, i + 1, dominant, confidence)

getDominant_LastMax(emotions) == DominantLoop_LastMax(emotions, 1, "neutral", 0)

\* getDominant(emotions): entries are visited in label order
getDominant(emotions) == DominantLoop(emotions, 1, "neutral", 0)

\* HOP_SAMPLES
HOP_SAMPLES ==
    Min(INFERENCE_WINDOW_SAMPLES - 1,
        Max(1, (TARGET_SAMPLE_RATE * HOP_DURATION_HALVES) \div 2))

RECURSIVE SumSquares(_)
SumSquares(samples) ==
    IF samples = <<>> THEN 0
    ELSE Head(samples).a * Head(samples).a + SumSquares(Tail(samples))

\* mutant: only an empty window counts as silence
BelowNoiseGate_EmptyOnly(samples) == samples = <<>>

\* calculateRMS(audioSamples) < NOISE_GATE_THRESHOLD, without the square
\* root: sumSquares / length < 1 / GateDen^2; an empty window has RMS 0
BelowNoiseGate(samples) ==
    \/ samples = <<>>
    \/ SumSquares(samples) * GateDen * GateDen < Len(samples)

\* mutant: no hold window, every silence hop blends toward neutral
buildSilenceResult_NoHold(timestamp, lastVoiced, sm) ==
    LET baseline == EmaUpdate(sm, NEUTRAL_VECTOR)
        dc == getDominant(baseline)
    IN  [result |-> [emotions |-> baseline, rawEmotions |-> baseline,
                     dominant |-> dc.dominant, confidence |-> dc.confidence,
                     timestamp |-> timestamp, isSilence |-> TRUE],
         smoother |-> [hasState |-> TRUE, state |-> baseline]]

\* buildSilenceResult(timestamp): the result and the smoother afterwards
buildSilenceResult(timestamp, lastVoiced, sm) ==
    LET holdActive == timestamp - lastVoiced < VOICE_HOLD_MS /\ lastVoiced > 0
        baseline == IF holdActive
                    THEN IF sm.hasState THEN sm.state ELSE NEUTRAL_VECTOR
                    ELSE EmaUpdate(sm, NEUTRAL_VECTOR)
        dc == getDominant(baseline)
    IN  [result |-> [emotions |-> baseline, rawEmotions |-> baseline,
                     dominant |-> dc.dominant, confidence |-> dc.confidence,
                     timestamp |-> timestamp, isSilence |-> TRUE],
         smoother |-> IF holdActive THEN sm
                      ELSE [hasState |-> TRUE, state |-> baseline]]

\* the tail of runInference after session.run resolved with `emotions`
VoicedResult(emotions, timestamp, sm) ==
    LET smoothedEmotions == EmaUpdate(sm, emotions)
        dc == getDominant(smoothedEmotions)
    IN  [result |-> [emotions |-> smoothedEmotions, rawEmotions |-> emotions,
                     dominant |-> dc.dominant, confidence |-> dc.confidence,
                     timestamp |-> timestamp, isSilence |-> FALSE],
         smoother |-> [hasState |-> TRUE, state |-> smoothedEmotions]]

\* mutant: slice(start) keeps the whole array
SliceFrom_Keep(arr, start) == arr

\* array.slice(start) and array.slice(-count)
SliceFrom(arr, start) == SubSeq(arr, Min(start, Len(arr)) + 1, Len(arr))

\* mutant: slice(-count) returns the oldest samples
SliceLast_First(arr, count) == SubSeq(arr, 1, Min(count, Len(arr)))

SliceLast(arr, count) == SubSeq(arr, Max(Len(arr) - count, 0) + 1, Len(arr))

\* ------------------------------------------------ emotion store, at rest
\* initialState of the emotion store
initialState ==
    [isModelLoaded |-> FALSE, isInferenceRunning |-> FALSE,
     emotions |-> initialEmotions, rawEmotions |-> initialEmotions,
     dominantEmotion |-> "neutral", confidence |-> 0,
     predictionCount |-> 0, audioBuffer |-> <<>>,
     inferenceIntervalId |-> 0, sharedBuffer |-> "undefined",
     error |-> "null"]

\* nothing was handed to handlePrediction yet
NoPrediction ==
    [delivered |-> FALSE, emotions |-> initialEmotions,
     rawEmotions |-> initialEmotions, dominant |-> "neutral",
     confidence |-> 0, isSilence |-> FALSE,
     stale |-> FALSE, firstAfterRestart |-> FALSE, emaWasNull |-> FALSE,
     voicedWasCleared |-> FALSE]

\* module state of utils/inference.js and of the store after loading the
\* page, with an idle event loop
EngineIdle ==
    /\ session = "null"
    /\ infInitialized = FALSE
    /\ lastVoicedTimestamp = 0
    /\ probabilitySmoother = NoState
    /\ store = initialState
    /\ prediction = NoPrediction
    /\ timers = {}
    /\ loads = 0
    /\ hops = <<>>
    /\ now = TickMs
    /\ timeline = 0
    /\ hopCount = 0
    /\ timerCount = 0
    /\ awaitFirst = "no"

\* -------------------------------------------------- audio store, at rest
\* initialState of the audio store; object references are the number of the
\* AudioContext the object belongs to, 0 for null
audioInitialState ==
    [isInitialized |-> FALSE, isRecording |-> FALSE,
     isProcessorReady |-> FALSE, inputMode |-> "mic", sharedBuffer |-> FALSE,
     audioContext |-> 0, workletNode |-> 0, mediaStream |-> 0,
     fileSourceNode |-> 0, fileBuffer |-> FALSE, isFilePlaying |-> FALSE]

\* the page was loaded: no AudioContext exists, no store call is pending
CaptureIdle ==
    /\ audio = audioInitialState
    /\ contexts = <<>>
    /\ calls = <<>>

\* ===================================================================
\* Sequential use of the ring buffer: every operation runs to completion
\* ===================================================================
Ret(op, n, dest) == [op |-> op, n |-> n, dest |-> dest]

\* createRingBuffer(capacity): cursors zero, data zero filled
createRingBuffer(cap) ==
    /\ capacity = cap
    /\ writePtr = 0
    /\ readPtr = 0
    /\ dataBuffer = [i \in 0..cap - 1 |-> 0]

\* the worker after 'init': model and buffer set, no loop, nothing posted
WorkerInitial ==
    [isRunning |-> FALSE, lastVoicedTimestamp |-> 0, loops |-> <<>>,
     inbox |-> <<>>, posts |-> 0, posted |-> "none"]

WorkerIdle == worker = WorkerInitial

\* no sample has gone through the resampler
StreamIdle ==
    /\ sourceStream = <<>>
    /\ resampled = <<>>

\* AudioProcessor constructor
ProcessorInit ==
    /\ isInitialized = FALSE
    /\ procControlBuffer = FALSE
    /\ port = <<>>
    /\ resampleBuffer = <<>>
    /\ resampleRatio = 1
    /\ StreamIdle

FillIdle == chunk = 0 /\ pushed = 0 /\ accepted = 0 /\ dropped = 0

\* no call in progress on either side
ProducerIdle == [pc |-> "idle", writePtr |-> 0, readPtr |-> 0, toWrite |-> 0,
                 i |-> 0, writeIndex |-> 0, samples |-> <<>>]
ConsumerIdle == [pc |-> "idle", writePtr |-> 0, readPtr |-> 0, toRead |-> 0,
                 i |-> 0, readIndex |-> 0, destination |-> <<>>]

ConcIdle ==
    /\ prod = ProducerIdle
    /\ cons = ConsumerIdle
    /\ writtenLog = <<>>
    /\ readLog = <<>>

\* a step of the main thread or of the consumer posts nothing on the
\* processor's port and leaves the processor alone
ProcessorIdle ==
    /\ port' = <<>>
    /\ UNCHANGED <<isInitialized, procControlBuffer>>

\* RingBufferWriter.write(samples)
WriteOf(samples) ==
    LET res == WriterWrite(dataBuffer, writePtr, readPtr, capacity, samples)
    IN  /\ dataBuffer' = res.data
        /\ writePtr' = res.writePtr
        /\ ret' = Ret("write", res.n, <<>>)
        /\ nextSample' = Advance(nextSample, Len(samples))
        /\ ProcessorIdle
        /\ UNCHANGED <<capacity, readPtr>>

Write ==
    /\ \E len \in 0..MaxLen : WriteOf(Ramp(nextSample, len))
    /\ UNCHANGED <<fillVars, concVars, engVars, capVars,
                   resampleVars, workerVars>>

\* RingBufferReader.read(destination), destination = new Float32Array(len)
ReadOf(len) ==
    LET res == ReaderRead(dataBuffer, writePtr, readPtr, capacity,
                          ZeroArray(len))
    IN  /\ readPtr' = res.readPtr
        /\ ret' = Ret("read", res.n, res.destination)
        /\ ProcessorIdle
        /\ UNCHANGED <<capacity, writePtr, dataBuffer, fillVars, nextSample, concVars, engVars, capVars,
                   resampleVars, workerVars>>

Read == \E len \in 0..MaxLen : ReadOf(len)

\* RingBufferReader.peek(destination)
PeekOf(len) ==
    LET res == ReaderPeek(dataBuffer, writePtr, readPtr, capacity,
                          ZeroArray(len))
    IN  /\ readPtr' = res.readPtr
        /\ ret' = Ret("peek", res.n, res.destination)
        /\ ProcessorIdle
        /\ UNCHANGED <<capacity, writePtr, dataBuffer, fillVars, nextSample, concVars, engVars, capVars,
                   resampleVars, workerVars>>

Peek == \E len \in 0..MaxLen : PeekOf(len)

\* RingBufferWriter.availableRead() and RingBufferReader.availableRead()
AvailableRead ==
    /\ ret' = Ret("availableRead",
                  availableRead(writePtr, readPtr, capacity), <<>>)
    /\ ProcessorIdle
    /\ UNCHANGED <<rbVars, fillVars, nextSample, concVars, engVars, capVars,
                   resampleVars, workerVars>>

\* RingBufferWriter.availableWrite()
AvailableWrite ==
    /\ ret' = Ret("availableWrite",
                  availableWrite(writePtr, readPtr, capacity), <<>>)
    /\ ProcessorIdle
    /\ UNCHANGED <<rbVars, fillVars, nextSample, concVars, engVars, capVars,
                   resampleVars, workerVars>>

\* RingBufferWriter.reset()
WriterReset ==
    /\ writePtr' = 0
    /\ readPtr' = 0
    /\ ret' = Ret("Writer.reset", 0, <<>>)
    /\ ProcessorIdle
    /\ UNCHANGED <<capacity, dataBuffer, fillVars, nextSample, concVars, engVars, capVars,
                   resampleVars, workerVars>>

\* mutant: the read cursor is rewound to zero, not moved to the write cursor
ReaderReset_Zero ==
    /\ readPtr' = 0
    /\ ret' = Ret("Reader.reset", 0, <<>>)
    /\ ProcessorIdle
    /\ UNCHANGED <<capacity, writePtr, dataBuffer, fillVars, nextSample, concVars, engVars, capVars,
                   resampleVars, workerVars>>

\* RingBufferReader.reset()
ReaderReset ==
    /\ readPtr' = writePtr
    /\ ret' = Ret("Reader.reset", 0, <<>>)
    /\ ProcessorIdle
    /\ UNCHANGED <<capacity, writePtr, dataBuffer, fillVars, nextSample, concVars, engVars, capVars,
                   resampleVars, workerVars>>

\* AudioProcessor.handleMessage({type: "init"}) -> initializeBuffer
HandleInit ==
    /\ procControlBuffer' = TRUE
    /\ isInitialized' = TRUE
    /\ port' = <<[type |-> "initialized"]>>
    /\ ret' = Ret("init", 0, <<>>)
    /\ UNCHANGED <<rbVars, fillVars, nextSample, concVars, engVars, capVars,
                   resampleVars, workerVars>>

\* AudioProcessor.handleMessage({type: "stop"})
HandleStop ==
    /\ isInitialized' = FALSE
    /\ port' = <<>>
    /\ ret' = Ret("stop", 0, <<>>)
    /\ UNCHANGED <<rbVars, procControlBuffer, fillVars, nextSample, concVars, engVars, capVars,
                   resampleVars, workerVars>>

\* AudioProcessor.handleMessage({type: "reset"}) -> resetBuffer
resetBuffer ==
    /\ IF procControlBuffer
       THEN writePtr' = 0 /\ readPtr' = 0
       ELSE UNCHANGED <<writePtr, readPtr>>
    /\ port' = <<>>
    /\ ret' = Ret("resetBuffer", 0, <<>>)
    /\ resampleBuffer' = <<>>
    /\ UNCHANGED <<capacity, dataBuffer, isInitialized, procControlBuffer,
                   resampleRatio, streamVars, workerVars,
                   fillVars, nextSample, concVars, engVars, capVars>>

\* mutant: bufferOverflow is posted after every write, full or not
ProcessMessages_AlwaysOverflow(samples, written) ==
    <<[type |-> "rms"]>>
    \o (IF Len(samples) > 0
        THEN <<[type |-> "samples", samples |-> samples]>> ELSE <<>>)
    \o (IF written >= 0 /\ written <= Len(samples)
        THEN <<[type |-> "bufferOverflow", dropped |-> Len(samples) - written]>>
        ELSE <<>>)

\* the messages of one AudioProcessor.process callback whose samples at the
\* target rate are `samples`, of which the ring buffer took `written`
\* (written = -1: writeToBuffer was not called)
ProcessMessages(samples, written) ==
    <<[type |-> "rms"]>>
    \o (IF Len(samples) > 0
        THEN <<[type |-> "samples", samples |-> samples]>> ELSE <<>>)
    \o (IF written >= 0 /\ written < Len(samples)
        THEN <<[type |-> "bufferOverflow", dropped |-> Len(samples) - written]>>
        ELSE <<>>)

\* AudioProcessor.process(inputs) for a context running at 16 kHz, where the
\* mono block is passed on unresampled
ProcessOf(samples) ==
    IF Len(samples) = 0
    THEN \* no channel data: return true
         /\ port' = <<>>
         /\ ret' = Ret("process", 0, <<>>)
         /\ UNCHANGED <<rbVars, isInitialized, procControlBuffer>>
    ELSE IF isInitialized /\ Len(samples) > 0
    THEN LET res == writeToBuffer(isInitialized /\ procControlBuffer,
                                  dataBuffer, writePtr, readPtr, capacity,
                                  samples)
         IN  /\ port' = ProcessMessages(samples, res.n)
             /\ dataBuffer' = res.data
             /\ writePtr' = res.writePtr
             /\ ret' = Ret("writeToBuffer", res.n, <<>>)
             /\ UNCHANGED <<capacity, readPtr, isInitialized,
                            procControlBuffer>>
    ELSE /\ port' = ProcessMessages(samples, -1)
         /\ ret' = Ret("process", 0, <<>>)
         /\ UNCHANGED <<rbVars, isInitialized, procControlBuffer>>

Process ==
    /\ \E len \in 0..MaxLen :
          /\ ProcessOf(Ramp(nextSample, len))
          /\ nextSample' = Advance(nextSample, len)
    /\ UNCHANGED <<fillVars, concVars, engVars, capVars,
                   resampleVars, workerVars>>

\* the drain step of the worker's inferenceLoop: getAvailableSamples(),
\* new Float32Array(available), readFromBuffer(tempBuffer)
WorkerDrain ==
    LET available == getAvailableSamples(TRUE, writePtr, readPtr, capacity)
        res == readFromBuffer(TRUE, dataBuffer, writePtr, readPtr, capacity,
                              ZeroArray(available))
    IN  /\ IF available > 0
           THEN /\ readPtr' = res.readPtr
                /\ ret' = Ret("readFromBuffer", res.n, res.destination)
           ELSE /\ UNCHANGED readPtr
                /\ ret' = Ret("drain", 0, <<>>)
        /\ ProcessorIdle
        /\ UNCHANGED <<capacity, writePtr, dataBuffer, fillVars, nextSample, concVars, engVars, capVars,
                   resampleVars, workerVars>>

vars == <<capacity, writePtr, readPtr, dataBuffer, isInitialized,
          procControlBuffer, port, ret, nextSample, chunk, pushed, accepted,
          dropped, prod, cons, writtenLog, readLog, session, infInitialized,
          lastVoicedTimestamp, probabilitySmoother, store, prediction, timers, loads,
          hops, now, timeline, hopCount, timerCount, awaitFirst,
          resampleBuffer, resampleRatio, sourceStream, resampled, audio,
          contexts, calls, worker>>

InitRB ==
    /\ \E cap \in 2..MaxCapacity : createRingBuffer(cap)
    /\ ProcessorInit
    /\ FillIdle
    /\ ConcIdle
    /\ EngineIdle
    /\ CaptureIdle
    /\ WorkerIdle
    /\ nextSample = 1
    /\ ret = Ret("new", 0, <<>>)

NextRB ==
    \/ Write
    \/ Read
    \/ Peek
    \/ AvailableRead
    \/ AvailableWrite
    \/ WriterReset
    \/ ReaderReset
    \/ HandleInit
    \/ HandleStop
    \/ resetBuffer
    \/ Process
    \/ WorkerDrain

SpecRB == InitRB /\ [][NextRB]_vars

TypeOKRB ==
    /\ capacity \in 2..MaxCapacity
    /\ writePtr \in 0..capacity - 1
    /\ readPtr \in 0..capacity - 1

\* ===================================================================
\* Properties of the sequential ring buffer (SpecRB)
\* ===================================================================
Arrays == {Ramp(nextSample, len) : len \in 0..MaxLen}

\* slots writePtr, writePtr+1, ... (mod capacity) that a write of n touches
SlotsFrom(start, n) == {(start + i) % capacity : i \in 0..n - 1}

\* C2: in every reachable state availableRead() = (writePtr - readPtr) mod
\* capacity, availableRead() + availableWrite() = capacity - 1, so that
\* availableWrite() never exceeds capacity - 1; the values the two calls
\* return are these counts.
C2_CountsInvariant ==
    LET aR == availableRead(writePtr, readPtr, capacity)
        aW == availableWrite(writePtr, readPtr, capacity)
    IN  /\ aR = (writePtr - readPtr) % capacity
        /\ aR + aW = capacity - 1
        /\ aW <= capacity - 1
        /\ ret.op = "availableRead" => ret.n = (writePtr - readPtr) % capacity
        /\ ret.op = "availableWrite" =>
               /\ ret.n = capacity - 1 - ((writePtr - readPtr) % capacity)
               /\ ret.n < capacity

\* C2 witness: availableRead() was called on a buffer whose write cursor has
\* wrapped behind the read cursor and that holds samples
C2_Witness ==
    /\ ret.op = "availableRead"
    /\ writePtr < readPtr
    /\ ret.n > 0

\* what write(samples) has to do in a step, by the contract of C3
WriteContract(samples) ==
    LET free == availableWrite(writePtr, readPtr, capacity)
        n    == Min(Len(samples), free)
    IN  /\ ret'.n = n
        /\ \A i \in 0..n - 1 :
               dataBuffer'[(writePtr + i) % capacity] = samples[i + 1]
        /\ \A k \in (0..capacity - 1) \ SlotsFrom(writePtr, n) :
               dataBuffer'[k] = dataBuffer[k]
        /\ writePtr' = (writePtr + n) % capacity
        /\ readPtr' = readPtr
        /\ capacity' = capacity
        /\ free = 0 => ret'.n = 0 /\ UNCHANGED rbVars

\* C3: a write (RingBufferWriter.write, or writeToBuffer called by process)
\* stores exactly n = min(samples.length, availableWrite()) samples, the
\* first n given, at writePtr, writePtr+1, ... mod capacity, advances the
\* write cursor by n mod capacity, returns n; on a full buffer it returns 0
\* and changes nothing.  It has no guard: it is enabled in every state.
C3_WriteContract ==
    [][ /\ \A samples \in Arrays :
              (WriteOf(samples)
                 \/ (ProcessOf(samples) /\ ret'.op = "writeToBuffer"))
              => WriteContract(samples)
        /\ ENABLED Write
      ]_vars

\* C3 witness: the processor's write was cut short by the free space and
\* wrapped around the end of the data array
C3_Witness ==
    /\ ret.op = "writeToBuffer"
    /\ ret.n >= 1
    /\ writePtr = 0
    /\ \E k \in 1..Len(port) : port[k].type = "bufferOverflow"

\* what read(destination) has to do in a step, by the contract of C4
ReadContract(len) ==
    LET avail == availableRead(writePtr, readPtr, capacity)
        n     == Min(len, avail)
    IN  /\ ret'.n = n
        /\ Len(ret'.dest) = len
        /\ \A i \in 0..n - 1 :
               ret'.dest[i + 1] = dataBuffer[(readPtr + i) % capacity]
        /\ \A j \in n + 1..len : ret'.dest[j] = 0
        /\ readPtr' = (readPtr + n) % capacity
        /\ writePtr' = writePtr
        /\ dataBuffer' = dataBuffer
        /\ capacity' = capacity
        /\ avail = 0 => ret'.n = 0 /\ UNCHANGED rbVars

\* C4: a read (RingBufferReader.read, or the worker's readFromBuffer) copies
\* exactly n = min(destination.length, availableRead()) samples starting at
\* the read cursor, advances the read cursor by n mod capacity, leaves the
\* write cursor alone and returns n; on an empty buffer it returns 0 and
\* changes nothing.
C4_ReadContract ==
    [][ /\ \A len \in 0..MaxLen : ReadOf(len) => ReadContract(len)
        /\ (WorkerDrain /\ ret'.op = "readFromBuffer")
              => ReadContract(availableRead(writePtr, readPtr, capacity))
      ]_vars

\* C4 witness: a read of two different samples that wrapped around the end
\* of the data array
C4_Witness ==
    /\ ret.op = "read"
    /\ ret.n = 2
    /\ readPtr = 1
    /\ ret.dest[1] # ret.dest[2]

\* C5: peek, availableRead and availableWrite leave both cursors and the
\* stored samples unchanged, and peek returns the count and the samples a
\* read with the same destination length would return in that state.
C5_PeekFrame ==
    [][ /\ (Peek \/ AvailableRead \/ AvailableWrite) => UNCHANGED rbVars
        /\ \A len \in 0..MaxLen :
              PeekOf(len) =>
                 LET rd == ReaderRead(dataBuffer, writePtr, readPtr, capacity,
                                      ZeroArray(len))
                 IN  ret'.n = rd.n /\ ret'.dest = rd.destination
      ]_vars

\* C5 witness: a peek returned two samples from a wrapped buffer
C5_Witness ==
    /\ ret.op = "peek"
    /\ ret.n = 2
    /\ writePtr < readPtr

\* the original statement of C6: every reset entry point zeroes both cursors
C6_Original ==
    [][ (WriterReset \/ ReaderReset \/ (resetBuffer /\ procControlBuffer))
          => (writePtr' = 0 /\ readPtr' = 0) ]_vars

\* C6 (amended): RingBufferWriter.reset and AudioProcessor.resetBuffer (on a
\* processor that has been given the buffer) set both cursors to zero;
\* RingBufferReader.reset sets the read cursor to the write cursor and leaves
\* the write cursor alone.  After each of them availableRead() = 0 and
\* availableWrite() = capacity - 1.
C6_ResetEmpties ==
    [][ /\ (WriterReset \/ (resetBuffer /\ procControlBuffer))
              => (writePtr' = 0 /\ readPtr' = 0)
        /\ ReaderReset => (readPtr' = writePtr /\ writePtr' = writePtr)
        /\ (WriterReset \/ ReaderReset \/ (resetBuffer /\ procControlBuffer))
              => /\ availableRead(writePtr', readPtr', capacity') = 0
                 /\ availableWrite(writePtr', readPtr', capacity')
                      = capacity - 1
      ]_vars

\* C6 witness: RingBufferReader.reset ran with the write cursor off zero
C6_Witness ==
    /\ ret.op = "Reader.reset"
    /\ writePtr # 0
    /\ readPtr = writePtr

\* ===================================================================
\* Fill scenario: fixed-size chunks pushed into an empty buffer, no reads
\* ===================================================================
\* the dropped count the last callback reported on the port
ReportedDropped(msgs) ==
    IF \E k \in 1..Len(msgs) : msgs[k].type = "bufferOverflow"
    THEN (CHOOSE m \in {msgs[k] : k \in 1..Len(msgs)} :
              m.type = "bufferOverflow").dropped
    ELSE 0

\* one audio callback delivering `chunk` samples to the capture processor
FillProcess ==
    /\ pushed + chunk <= MaxPushed
    /\ ProcessOf(Ramp(nextSample, chunk))
    /\ nextSample' = Advance(nextSample, chunk)
    /\ pushed' = pushed + chunk
    /\ accepted' = accepted + ret'.n
    /\ dropped' = dropped + ReportedDropped(port')
    /\ UNCHANGED <<chunk, concVars, engVars, capVars,
                   resampleVars, workerVars>>

\* one RingBufferWriter.write of `chunk` samples; the caller counts what
\* was not written as dropped
FillWrite ==
    /\ pushed + chunk <= MaxPushed
    /\ WriteOf(Ramp(nextSample, chunk))
    /\ pushed' = pushed + chunk
    /\ accepted' = accepted + ret'.n
    /\ dropped' = dropped + (chunk - ret'.n)
    /\ UNCHANGED <<chunk, concVars, engVars, capVars,
                   resampleVars, workerVars>>

InitFill ==
    /\ \E cap \in 2..MaxCapacity : createRingBuffer(cap)
    /\ isInitialized = TRUE
    /\ procControlBuffer = TRUE
    /\ resampleBuffer = <<>>
    /\ resampleRatio = 1
    /\ StreamIdle
    /\ port = <<[type |-> "initialized"]>>
    /\ ret = Ret("init", 0, <<>>)
    /\ nextSample = 1
    /\ chunk \in 1..MaxChunk
    /\ pushed = 0
    /\ accepted = 0
    /\ dropped = 0
    /\ ConcIdle
    /\ EngineIdle
    /\ CaptureIdle
    /\ WorkerIdle

NextFill ==
    \/ FillProcess
    \/ FillWrite

SpecFill == InitFill /\ [][NextFill]_vars

\* C7: from an empty buffer of capacity C, with no reads, once the total T
\* of the fixed-size chunks pushed is at least C - 1, the dropped total
\* (requested - returned, which is also what bufferOverflow reports) is
\* T - C + 1 and availableRead() is C - 1, after the write that fills the
\* buffer and after every later write.
C7_FillDrops ==
    pushed >= capacity - 1 =>
        /\ dropped = pushed - capacity + 1
        /\ pushed - accepted = dropped
        /\ availableRead(writePtr, readPtr, capacity) = capacity - 1

\* C7 witness: chunks larger than the free space were pushed past twice the
\* capacity through the capture processor, the first one cut short
C7_Witness ==
    /\ chunk > capacity - 1
    /\ pushed >= 2 * capacity
    /\ dropped > accepted
    /\ ret.op = "writeToBuffer"

\* ===================================================================
\* Producer and consumer running concurrently (SPSC)
\* Each Atomics.load, each Atomics.store and each copy of one sample is a
\* step of its own; the steps of the two sides interleave freely.
\* The producer numbers the samples it offers 1, 2, 3, ...
\* ===================================================================
Ids(start, len) == [i \in 1..len |-> start + i - 1]

\* mutant: the wrapped formula is used whether or not the cursors wrapped
ReadAvailable_NoBranch(w, r, cap) == cap - r + w

\* the inline count of RingBufferReader.read / readFromBuffer
ReadAvailable(w, r, cap) == IF w >= r THEN w - r ELSE cap - r + w

\* write: const writePtr = Atomics.load(controlBuffer, 0)
P_LoadWrite ==
    /\ prod.pc = "idle"
    /\ \E len \in 1..MaxLen :
          /\ nextSample + len - 1 <= MaxOffered
          /\ prod' = [ProducerIdle EXCEPT !.pc = "loadRead",
                                          !.writePtr = writePtr,
                                          !.samples = Ids(nextSample, len)]
          /\ nextSample' = nextSample + len
    /\ UNCHANGED <<rbVars, procVars, ret, fillVars, cons, writtenLog, readLog,
                   engVars, capVars,
                   resampleVars, workerVars>>

\* mutant: the producer copies every sample it was given, free space or not
P_LoadRead_NoSpaceCheck ==
    /\ prod.pc = "loadRead"
    /\ prod' = [prod EXCEPT !.pc = "copy", !.readPtr = readPtr,
                            !.toWrite = Len(prod.samples), !.i = 0,
                            !.writeIndex = prod.writePtr]
    /\ UNCHANGED <<rbVars, procVars, ret, fillVars, nextSample, cons,
                   writtenLog, readLog, engVars, capVars,
                   resampleVars, workerVars>>

\* write: const readPtr = Atomics.load(controlBuffer, 1); available; toWrite;
\* if (toWrite === 0) return 0
P_LoadRead ==
    /\ prod.pc = "loadRead"
    /\ LET toWrite == Min(Len(prod.samples),
                          availableWrite(prod.writePtr, readPtr, capacity))
       IN  IF toWrite = 0
           THEN prod' = ProducerIdle
           ELSE prod' = [prod EXCEPT !.pc = "copy", !.readPtr = readPtr,
                                     !.toWrite = toWrite, !.i = 0,
                                     !.writeIndex = prod.writePtr]
    /\ UNCHANGED <<rbVars, procVars, ret, fillVars, nextSample, cons,
                   writtenLog, readLog, engVars, capVars,
                   resampleVars, workerVars>>

\* write: one iteration of the copy loop
P_Copy ==
    /\ prod.pc = "copy"
    /\ dataBuffer' = [dataBuffer EXCEPT ![prod.writeIndex] =
                                            prod.samples[prod.i + 1]]
    /\ prod' = [prod EXCEPT !.writeIndex = (prod.writeIndex + 1) % capacity,
                            !.i = prod.i + 1,
                            !.pc = IF prod.i + 1 < prod.toWrite
                                   THEN "copy" ELSE "store"]
    /\ UNCHANGED <<capacity, writePtr, readPtr, procVars, ret, fillVars,
                   nextSample, cons, writtenLog, readLog, engVars, capVars,
                   resampleVars, workerVars>>

\* write: Atomics.store(controlBuffer, 0, writeIndex); return toWrite
P_Store ==
    /\ prod.pc = "store"
    /\ writePtr' = prod.writeIndex
    /\ writtenLog' = writtenLog \o SubSeq(prod.samples, 1, prod.toWrite)
    /\ prod' = ProducerIdle
    /\ UNCHANGED <<capacity, readPtr, dataBuffer, procVars, ret, fillVars,
                   nextSample, cons, readLog, engVars, capVars,
                   resampleVars, workerVars>>

\* read: const writePtr = Atomics.load(controlBuffer, 0)
C_LoadWrite ==
    /\ cons.pc = "idle"
    /\ \E len \in 1..MaxLen :
          cons' = [ConsumerIdle EXCEPT !.pc = "loadRead",
                                       !.writePtr = writePtr,
                                       !.destination = ZeroArray(len)]
    /\ UNCHANGED <<rbVars, procVars, ret, fillVars, nextSample, prod,
                   writtenLog, readLog, engVars, capVars,
                   resampleVars, workerVars>>

\* read: const readPtr = Atomics.load(controlBuffer, 1); available; toRead;
\* if (toRead === 0) return 0
C_LoadRead ==
    /\ cons.pc = "loadRead"
    /\ LET toRead == Min(Len(cons.destination),
                         ReadAvailable(cons.writePtr, readPtr, capacity))
       IN  IF toRead = 0
           THEN cons' = ConsumerIdle
           ELSE cons' = [cons EXCEPT !.pc = "copy", !.readPtr = readPtr,
                                     !.toRead = toRead, !.i = 0,
                                     !.readIndex = readPtr]
    /\ UNCHANGED <<rbVars, procVars, ret, fillVars, nextSample, prod,
                   writtenLog, readLog, engVars, capVars,
                   resampleVars, workerVars>>

\* read: one iteration of the copy loop
C_Copy ==
    /\ cons.pc = "copy"
    /\ cons' = [cons EXCEPT !.destination[cons.i + 1] =
                                dataBuffer[cons.readIndex],
                            !.readIndex = (cons.readIndex + 1) % capacity,
                            !.i = cons.i + 1,
                            !.pc = IF cons.i + 1 < cons.toRead
                                   THEN "copy" ELSE "store"]
    /\ UNCHANGED <<rbVars, procVars, ret, fillVars, nextSample, prod,
                   writtenLog, readLog, engVars, capVars,
                   resampleVars, workerVars>>

\* read: Atomics.store(controlBuffer, 1, readIndex); return toRead
C_Store ==
    /\ cons.pc = "store"
    /\ readPtr' = cons.readIndex
    /\ readLog' = readLog \o SubSeq(cons.destination, 1, cons.toRead)
    /\ cons' = ConsumerIdle
    /\ UNCHANGED <<capacity, writePtr, dataBuffer, procVars, ret, fillVars,
                   nextSample, prod, writtenLog, engVars, capVars,
                   resampleVars, workerVars>>

InitSPSC ==
    /\ \E cap \in 2..MaxCapacity : createRingBuffer(cap)
    /\ isInitialized = TRUE
    /\ procControlBuffer = TRUE
    /\ resampleBuffer = <<>>
    /\ resampleRatio = 1
    /\ StreamIdle
    /\ port = <<>>
    /\ ret = Ret("new", 0, <<>>)
    /\ nextSample = 1
    /\ FillIdle
    /\ ConcIdle
    /\ EngineIdle
    /\ CaptureIdle
    /\ WorkerIdle

NextSPSC ==
    \/ P_LoadWrite
    \/ P_LoadRead
    \/ P_Copy
    \/ P_Store
    \/ C_LoadWrite
    \/ C_LoadRead
    \/ C_Copy
    \/ C_Store

SpecSPSC == InitSPSC /\ [][NextSPSC]_vars

IsPrefix(a, b) == Len(a) <= Len(b) /\ SubSeq(b, 1, Len(a)) = a

\* C1: with one producer and one consumer interleaving their cursor loads,
\* sample copies and cursor stores, everything the reads have returned, in
\* order, is a prefix of everything the writes have accepted, in order:
\* no sample is duplicated, skipped or reordered.
C1_FifoPrefix == IsPrefix(readLog, writtenLog)

\* C1 witness: after two samples were read, the producer and the consumer
\* are both inside their copy loops on a buffer whose write cursor has
\* wrapped behind the read cursor
C1_Witness ==
    /\ Len(readLog) >= 2
    /\ prod.pc = "copy"
    /\ cons.pc = "copy"
    /\ writePtr < readPtr

\* =========================================================================
\* The emotion store driving main-thread inference (stores/emotionStore.js
\* with utils/inference.js), one action per handler or continuation.
\* =========================================================================
\* the capture side is not part of these runs
StoreFrame ==
    UNCHANGED <<rbVars, procVars, fillVars, nextSample, concVars, ret,
                capVars, resampleVars, workerVars>>

\* isInferenceReady()
isInferenceReady == infInitialized /\ session # "null"

\* handlePrediction(data): the store afterwards
handlePrediction(st, data) ==
    [st EXCEPT !.emotions = data.emotions,
               !.rawEmotions = data.rawEmotions,
               !.dominantEmotion = data.dominant,
               !.confidence = data.confidence,
               !.predictionCount = st.predictionCount + 1]

\* what handlePrediction was called with, and the circumstances of the call
Delivered(data, stale, first, emaWasNull, voicedWasCleared) ==
    [delivered |-> TRUE, emotions |-> data.emotions,
     rawEmotions |-> data.rawEmotions, dominant |-> data.dominant,
     confidence |-> data.confidence,
     isSilence |-> data.isSilence, stale |-> stale,
     firstAfterRestart |-> first, emaWasNull |-> emaWasNull,
     voicedWasCleared |-> voicedWasCleared]

\* initializeWorker(sharedBuffer, capacity) up to its await: the buffer
\* reference is stored and the model load begins
InitializeWorker ==
    /\ loads < MaxLoads
    /\ store.sharedBuffer = "undefined"
    /\ \E sharedBuffer \in {"null", "buffer"} :
           store' = [store EXCEPT !.sharedBuffer = sharedBuffer]
    /\ loads' = loads + 1
    /\ UNCHANGED <<infVars, prediction, timers, hops, now, bookVars>>
    /\ StoreFrame

\* InferenceSession.create resolved: initializeInference returns true
LoadSucceeds ==
    /\ loads > 0
    /\ loads' = loads - 1
    /\ session' = "loaded"
    /\ infInitialized' = TRUE
    /\ store' = [store EXCEPT !.isModelLoaded = TRUE, !.error = "null"]
    /\ UNCHANGED <<lastVoicedTimestamp, probabilitySmoother, prediction,
                   timers, hops, now, bookVars>>
    /\ StoreFrame

\* mutant: a rejected load still marks the engine initialized
LoadFails_Ready ==
    /\ loads > 0
    /\ loads' = loads - 1
    /\ session' = "loaded"
    /\ infInitialized' = TRUE
    /\ store' = [store EXCEPT !.error = "Failed to load model"]
    /\ UNCHANGED <<lastVoicedTimestamp, probabilitySmoother, prediction,
                   timers, hops, now, bookVars>>
    /\ StoreFrame
\* InferenceSession.create rejected: initializeInference returns false
LoadFails ==
    /\ loads > 0
    /\ loads' = loads - 1
    /\ store' = [store EXCEPT !.error = "Failed to load model"]
    /\ UNCHANGED <<infVars, prediction, timers, hops, now, bookVars>>
    /\ StoreFrame

\* the samples of a 'samples' message: consecutive timeline positions, all
\* loud (amplitude 1) or all silent (amplitude 0)
Message(first, len, a) == [i \in 1..len |-> [t |-> first + i - 1, a |-> a]]

\* addAudioSamples(samples), while fewer than `limit` samples were delivered
AddSamples(limit) ==
    /\ \E len \in 1..MaxArrive, a \in {0, 1} :
        /\ timeline + len <= limit
        /\ timeline' = timeline + len
        /\ IF ~store.isInferenceRunning
           THEN /\ store' = store
           ELSE LET newBuffer == store.audioBuffer
                                     \o Message(timeline + 1, len, a)
                    maxSize == INFERENCE_WINDOW_SAMPLES * 4
                IN  /\ store' = [store EXCEPT !.audioBuffer =
                                    SliceLast(newBuffer, maxSize)]
    /\ UNCHANGED <<infVars, prediction, loopVars, hopCount, timerCount,
                   awaitFirst>>
    /\ StoreFrame

AddAudioSamples == AddSamples(MaxTimeline)

\* startInference()
StartInference ==
    /\ IF ~isInferenceReady
       THEN /\ store' = [store EXCEPT !.error = "Model not initialized"]
            /\ UNCHANGED <<timers, timerCount, awaitFirst>>
       ELSE /\ timerCount < MaxTimers
            /\ timerCount' = timerCount + 1
            /\ timers' = timers \cup {timerCount + 1}
            /\ store' = [store EXCEPT !.isInferenceRunning = TRUE,
                                      !.inferenceIntervalId = timerCount + 1]
            /\ awaitFirst' = IF awaitFirst = "stopped" THEN "restart"
                             ELSE awaitFirst
    /\ UNCHANGED <<infVars, prediction, loads, hops, now, timeline, hopCount>>
    /\ StoreFrame

\* stopInference()
StopInference ==
    /\ timers' = IF store.inferenceIntervalId # 0
                 THEN timers \ {store.inferenceIntervalId}
                 ELSE timers
    /\ store' = [store EXCEPT !.isInferenceRunning = FALSE,
                              !.inferenceIntervalId = 0]
    /\ hops' = [h \in 1..Len(hops) |-> [hops[h] EXCEPT !.stale = TRUE]]
    /\ awaitFirst' = IF store.isInferenceRunning THEN "stopped"
                     ELSE awaitFirst
    /\ UNCHANGED <<infVars, prediction, loads, now, timeline, hopCount,
                   timerCount>>
    /\ StoreFrame

\* resetSession()
ResetSession ==
    /\ probabilitySmoother' = NoState
    /\ lastVoicedTimestamp' = 0
    /\ store' = [store EXCEPT !.emotions = initialEmotions,
                              !.rawEmotions = initialEmotions,
                              !.dominantEmotion = "neutral",
                              !.confidence = 0,
                              !.predictionCount = 0,
                              !.audioBuffer = <<>>]
    /\ hops' = [h \in 1..Len(hops) |-> [hops[h] EXCEPT !.reset = TRUE]]
    /\ UNCHANGED <<session, infInitialized, prediction, timers, loads, now,
                   bookVars>>
    /\ StoreFrame

\* a hop suspended at `await session.run(feeds)`: the store snapshot taken
\* by processAudio, the window handed to the model, and the circumstances
\* (stale: stopInference ran since; reset: resetSession ran since)
InFlight(state, audioWindow, first, voicedWasCleared) ==
    [state |-> state, audioWindow |-> audioWindow,
     stale |-> FALSE, reset |-> FALSE,
     firstAfterRestart |-> first, voicedWasCleared |-> voicedWasCleared]

RemoveAt(seq, h) == SubSeq(seq, 1, h - 1) \o SubSeq(seq, h + 1, Len(seq))

\* the interval timer fires: processAudio() up to its await.  A window
\* below the noise gate resolves without leaving the microtask queue, so
\* the whole hop is one step; a voiced window suspends at session.run.
ProcessAudio ==
    /\ timers # {}
    /\ IF \/ ~store.isInferenceRunning
          \/ ~isInferenceReady
          \/ Len(store.audioBuffer) < INFERENCE_WINDOW_SAMPLES
       THEN UNCHANGED <<infVars, store, prediction, hops, hopCount,
                        awaitFirst>>
       ELSE LET audioWindow == SliceLast(store.audioBuffer,
                                         INFERENCE_WINDOW_SAMPLES)
                first == awaitFirst = "restart"
            IN  /\ hopCount < MaxHops
                /\ hopCount' = hopCount + 1
                /\ awaitFirst' = IF first THEN "no" ELSE awaitFirst
                /\ UNCHANGED <<session, infInitialized>>
                /\ IF BelowNoiseGate(audioWindow)
                   THEN LET s == buildSilenceResult(now, lastVoicedTimestamp,
                                                    probabilitySmoother)
                        IN  /\ probabilitySmoother' = s.smoother
                            /\ store' =
                                 [handlePrediction(store, s.result)
                                    EXCEPT !.audioBuffer =
                                      SliceFrom(store.audioBuffer,
                                                HOP_SAMPLES)]
                            /\ prediction' =
                                 Delivered(s.result, FALSE, first,
                                           ~probabilitySmoother.hasState,
                                           lastVoicedTimestamp = 0)
                            /\ UNCHANGED <<lastVoicedTimestamp, hops>>
                   ELSE /\ Len(hops) < MaxInFlight
                        /\ lastVoicedTimestamp' = now
                        /\ hops' = Append(hops,
                                     InFlight(store.audioBuffer, audioWindow,
                                              first, lastVoicedTimestamp = 0))
                        /\ UNCHANGED <<probabilitySmoother, store, prediction>>
    /\ UNCHANGED <<timers, loads, now, timeline, timerCount>>
    /\ StoreFrame

\* session.run resolved: the rest of runInference and of processAudio
InferenceCompletes ==
    /\ \E h \in 1..Len(hops), emotions \in ModelOutputs :
        LET hop == hops[h]
            v == VoicedResult(emotions, now, probabilitySmoother)
        IN  /\ probabilitySmoother' = v.smoother
            /\ store' = [handlePrediction(store, v.result)
                           EXCEPT !.audioBuffer =
                             SliceFrom(hop.state, HOP_SAMPLES)]
            /\ prediction' = Delivered(v.result, hop.stale,
                                       hop.firstAfterRestart,
                                       ~probabilitySmoother.hasState,
                                       hop.voicedWasCleared)
            /\ hops' = RemoveAt(hops, h)
    /\ UNCHANGED <<session, infInitialized, lastVoicedTimestamp, timers,
                   loads, now, bookVars>>
    /\ StoreFrame

\* session.run rejected: runInference returns null, processAudio does nothing
InferenceFails ==
    /\ \E h \in 1..Len(hops) : hops' = RemoveAt(hops, h)
    /\ UNCHANGED <<infVars, store, prediction, timers, loads, now, bookVars>>
    /\ StoreFrame

\* time passes
Tick ==
    /\ now < MaxTicks * TickMs
    /\ now' = now + TickMs
    /\ UNCHANGED <<infVars, store, prediction, timers, loads, hops, bookVars>>
    /\ StoreFrame

InitStore ==
    /\ createRingBuffer(MaxCapacity)
    /\ ProcessorInit
    /\ FillIdle
    /\ ConcIdle
    /\ EngineIdle
    /\ CaptureIdle
    /\ WorkerIdle
    /\ nextSample = 1
    /\ ret = Ret("new", 0, <<>>)

NextStore ==
    \/ InitializeWorker
    \/ LoadSucceeds
    \/ LoadFails
    \/ AddAudioSamples
    \/ StartInference
    \/ StopInference
    \/ ResetSession
    \/ ProcessAudio
    \/ InferenceCompletes
    \/ InferenceFails
    \/ Tick

SpecStore == InitStore /\ [][NextStore]_vars

\* C8: a prediction is handed to handlePrediction only by a hop that no
\* stop request has overtaken: the result of an invocation that was in
\* flight when stop arrived is discarded.
C8_StoppedDiscards == prediction.delivered => ~prediction.stale

\* C9: the first prediction produced after a stop followed by a start is
\* computed with the EMA accumulator null and the last-voiced timestamp
\* cleared, so its smoothed vector equals its raw vector.
C9_RestartFromEmpty ==
    (prediction.delivered /\ prediction.firstAfterRestart)
        => /\ prediction.emaWasNull
           /\ prediction.voicedWasCleared
           /\ prediction.emotions = prediction.rawEmotions

\* C10: a start request enters Running only if the model is loaded and the
\* shared buffer has been initialized; otherwise it does not enter Running
\* and reports an error.
C10_StartPreconditions ==
    [][StartInference =>
        LET met == isInferenceReady /\ store.sharedBuffer = "buffer"
        IN  /\ store'.inferenceIntervalId # store.inferenceIntervalId => met
            /\ ~met => /\ ~store'.isInferenceRunning
                       /\ timers' = timers
                       /\ store'.error # "null"]_vars

\* The life cycle of the store's engine without the hops: loading, start,
\* stop, reset and arriving samples.  No hop action assigns session,
\* isInitialized, isModelLoaded or error.
NextLoad ==
    \/ InitializeWorker
    \/ LoadSucceeds
    \/ LoadFails
    \/ AddAudioSamples
    \/ StartInference
    \/ StopInference
    \/ ResetSession

SpecLoad == InitStore /\ [][NextLoad]_vars

Windows ==
    {[i \in 1..INFERENCE_WINDOW_SAMPLES |-> [a |-> f[i], t |-> i]] :
        f \in [1..INFERENCE_WINDOW_SAMPLES -> {0, 1}]}

\* a model output that gives labels a and b the same probability 2/5 and
\* "calm" the rest
TieOutput(a, b) ==
    [l \in Labels |-> IF l \in {a, b} THEN 2 * (Scale \div AlphaDen)
                      ELSE IF l = "calm" THEN Scale \div AlphaDen ELSE 0]

SmootherInputs ==
    ModelOutputs \cup {TieOutput("happy", "sad"), TieOutput("angry", "neutral")}

\* the smoother state n silence hops after the hold window ran out
RECURSIVE Decay(_, _)
Decay(v, n) ==
    IF n = 0 THEN v
    ELSE Decay(EmaUpdate([hasState |-> TRUE, state |-> v], NEUTRAL_VECTOR),
               n - 1)

\* resetInference()
ResetInference ==
    /\ probabilitySmoother' = NoState
    /\ lastVoicedTimestamp' = 0
    /\ UNCHANGED <<session, infInitialized, store, prediction, loopVars,
                   bookVars>>
    /\ StoreFrame

\* runInference(audioSamples) up to its return or its await; the suspended
\* call keeps neither a store snapshot nor the window, which it no longer
\* reads
RunInference(audioSamples) ==
    /\ session # "null"
    /\ hopCount < MaxRuns
    /\ hopCount' = hopCount + 1
    /\ IF BelowNoiseGate(audioSamples)
       THEN LET s == buildSilenceResult(now, lastVoicedTimestamp,
                                        probabilitySmoother)
            IN  /\ probabilitySmoother' = s.smoother
                /\ prediction' = Delivered(s.result, FALSE, FALSE,
                                           ~probabilitySmoother.hasState,
                                           lastVoicedTimestamp = 0)
                /\ UNCHANGED <<lastVoicedTimestamp, hops>>
       ELSE /\ Len(hops) < MaxInFlight
            /\ lastVoicedTimestamp' = now
            /\ hops' = Append(hops, InFlight(<<>>, <<>>, FALSE,
                                             lastVoicedTimestamp = 0))
            /\ UNCHANGED <<probabilitySmoother, prediction>>
    /\ UNCHANGED <<session, infInitialized, store, timers, loads, now,
                   timeline, timerCount, awaitFirst>>
    /\ StoreFrame

\* session.run resolved with `emotions`: the rest of runInference
SessionRunResolves(h, emotions) ==
    /\ h \in 1..Len(hops)
    /\ LET v == VoicedResult(emotions, now, probabilitySmoother)
       IN  /\ probabilitySmoother' = v.smoother
           /\ prediction' = Delivered(v.result, FALSE, FALSE,
                                      ~probabilitySmoother.hasState,
                                      hops[h].voicedWasCleared)
    /\ hops' = RemoveAt(hops, h)
    /\ UNCHANGED <<session, infInitialized, lastVoicedTimestamp, store,
                   timers, loads, now, bookVars>>
    /\ StoreFrame

\* the model is loaded; the session is new, or it heard a voiced hop at
\* TickMs and has been silent since
InitSmoother ==
    /\ createRingBuffer(MaxCapacity)
    /\ ProcessorInit
    /\ FillIdle
    /\ ConcIdle
    /\ CaptureIdle
    /\ WorkerIdle
    /\ nextSample = 1
    /\ ret = Ret("new", 0, <<>>)
    /\ session = "loaded"
    /\ infInitialized = TRUE
    /\ store = [initialState EXCEPT !.isModelLoaded = TRUE]
    /\ prediction = NoPrediction
    /\ timers = {}
    /\ loads = 0
    /\ hops = <<>>
    /\ timeline = <<>>
    /\ hopCount = 0
    /\ timerCount = 0
    /\ awaitFirst = "no"
    /\ \/ /\ probabilitySmoother = NoState
          /\ lastVoicedTimestamp = 0
          /\ now = TickMs
       \/ \E v \in SmootherInputs :
             /\ probabilitySmoother = [hasState |-> TRUE, state |-> v]
             /\ lastVoicedTimestamp = TickMs
             /\ now = TickMs
       \/ \E n \in 1..MaxDecay :
             /\ probabilitySmoother =
                   [hasState |-> TRUE, state |-> Decay(OneHot("happy"), n)]
             /\ lastVoicedTimestamp = TickMs
             /\ now = TickMs + VOICE_HOLD_MS

NextSmoother ==
    \/ \E w \in Windows : RunInference(w)
    \/ \E h \in 1..Len(hops), e \in SmootherInputs : SessionRunResolves(h, e)
    \/ ResetInference
    \/ Tick

SpecSmoother == InitSmoother /\ [][NextSmoother]_vars

\* alpha * next + (1 - alpha) * prev, up to the rounding of the arithmetic
IsBlend(out, next, prev) ==
    \A l \in Labels :
        LET exact == AlphaNum * next[l] + (AlphaDen - AlphaNum) * prev[l]
            err == AlphaDen * out[l] - exact
        IN  2 * (IF err < 0 THEN -err ELSE err) <= AlphaDen

\* C14: the first update after construction or reset returns its argument
\* unchanged and stores it; every later update returns and stores
\* alpha * v + (1 - alpha) * previous for each label; reset leaves the
\* smoother without prior state whatever was stored
C14_EmaFirstThenBlend ==
    [][/\ \A h \in 1..Len(hops), v \in SmootherInputs :
             SessionRunResolves(h, v)
                => /\ probabilitySmoother'.hasState
                   /\ probabilitySmoother'.state = prediction'.emotions
                   /\ IF probabilitySmoother.hasState
                      THEN IsBlend(prediction'.emotions, v,
                                   probabilitySmoother.state)
                      ELSE prediction'.emotions = v
       /\ ResetInference => ~probabilitySmoother'.hasState]_vars

\* a blended update was returned, and a first update after a reset
C14_Witness ==
    /\ prediction.delivered
    /\ ~prediction.isSilence
    /\ ~prediction.emaWasNull
    /\ prediction.emotions # prediction.rawEmotions
    /\ ~probabilitySmoother.hasState
    /\ lastVoicedTimestamp = 0

\* a hop on a window below the noise gate
SilenceHop == \E w \in Windows : BelowNoiseGate(w) /\ RunInference(w)

\* a voiced timestamp exists and the hold window has not run out
HoldActive ==
    lastVoicedTimestamp > 0 /\ now - lastVoicedTimestamp < VOICE_HOLD_MS

C16_FirstSilentHop ==
    [][\A w \in Windows :
          (/\ \A i \in 1..Len(w) : w[i].a = 0
           /\ ~probabilitySmoother.hasState
           /\ lastVoicedTimestamp = 0
           /\ RunInference(w))
             => /\ prediction'.delivered
                /\ prediction'.isSilence
                /\ prediction'.dominant = "neutral"
                /\ prediction'.confidence = Scale
                /\ hops' = hops]_vars

\* the first hop of a new session was a silence hop
C16_Witness ==
    /\ hopCount = 1
    /\ hops = <<>>
    /\ prediction.delivered
    /\ prediction.isSilence
    /\ prediction.emaWasNull
    /\ prediction.voicedWasCleared
    /\ prediction.confidence = Scale

\* position of a label in EMOTION_LABELS
LabelIndex(label) ==
    CHOOSE i \in 1..Len(EMOTION_LABELS) : EMOTION_LABELS[i] = label

ResampleRatios == {1, 2}

\* inputs[0] of a callback: no channel, or one channel of 0..MaxLen frames
Inputs(first) == {<<>>} \cup {<<Ramp(first, len)>> : len \in 0..MaxLen}

\* !input || !input.length || !input[0] || !input[0].length
NoInput_ChannelsOnly(input) == input = <<>>

NoInput(input) == input = <<>> \/ Len(input[1]) = 0

\* resample(inputSamples) for a whole-number ratio: the block is appended to
\* the carry-over, every ratio-th sample is an output (the interpolation
\* weight of its neighbour is 0), and what was not consumed is carried over
resample(carry, ratio, inputSamples) ==
    LET acc == carry \o inputSamples
        outputSamples == Len(acc) \div ratio
        consumed == outputSamples * ratio
    IN  IF Len(acc) < ratio
        THEN [output |-> <<>>, carry |-> acc]
        ELSE [output |-> [i \in 1..outputSamples |-> acc[(i - 1) * ratio + 1]],
              carry |-> SubSeq(acc, consumed + 1, Len(acc))]

\* what one process() call did: its return value, the samples at the target
\* rate, and what writeToBuffer returned (-1: it was not called)
ProcessRet(samples, written) ==
    [op |-> "process", keepAlive |-> TRUE, n |-> written, dest |-> samples]

\* mutant: the 'samples' message is posted only while initialized
ProcessInput_GatedSamples(input) ==
    IF NoInput(input)
    THEN /\ port' = <<>>
         /\ ret' = ProcessRet(<<>>, -1)
         /\ UNCHANGED <<rbVars, isInitialized, procControlBuffer,
                        resampleBuffer>>
    ELSE LET r == IF resampleRatio # 1
                  THEN resample(resampleBuffer, resampleRatio, input[1])
                  ELSE [output |-> input[1], carry |-> resampleBuffer]
             samples == r.output
             res == writeToBuffer(isInitialized /\ procControlBuffer,
                                  dataBuffer, writePtr, readPtr, capacity,
                                  samples)
         IN  /\ resampleBuffer' = r.carry
             /\ IF isInitialized /\ Len(samples) > 0
                THEN /\ port' = ProcessMessages(samples, res.n)
                     /\ dataBuffer' = res.data
                     /\ writePtr' = res.writePtr
                     /\ ret' = ProcessRet(samples, res.n)
                     /\ UNCHANGED <<capacity, readPtr>>
                ELSE /\ port' = <<[type |-> "rms"]>>
                     /\ ret' = ProcessRet(samples, -1)
                     /\ UNCHANGED rbVars
             /\ UNCHANGED <<isInitialized, procControlBuffer>>

\* AudioProcessor.process(inputs) with inputs[0] = input
ProcessInput(input) ==
    IF NoInput(input)
    THEN /\ port' = <<>>
         /\ ret' = ProcessRet(<<>>, -1)
         /\ UNCHANGED <<rbVars, isInitialized, procControlBuffer,
                        resampleBuffer>>
    ELSE LET r == IF resampleRatio # 1
                  THEN resample(resampleBuffer, resampleRatio, input[1])
                  ELSE [output |-> input[1], carry |-> resampleBuffer]
             samples == r.output
             res == writeToBuffer(isInitialized /\ procControlBuffer,
                                  dataBuffer, writePtr, readPtr, capacity,
                                  samples)
         IN  /\ resampleBuffer' = r.carry
             /\ IF isInitialized /\ Len(samples) > 0
                THEN /\ port' = ProcessMessages(samples, res.n)
                     /\ dataBuffer' = res.data
                     /\ writePtr' = res.writePtr
                     /\ ret' = ProcessRet(samples, res.n)
                     /\ UNCHANGED <<capacity, readPtr>>
                ELSE /\ port' = ProcessMessages(samples, -1)
                     /\ ret' = ProcessRet(samples, -1)
                     /\ UNCHANGED rbVars
             /\ UNCHANGED <<isInitialized, procControlBuffer>>

ProcessBlock ==
    /\ \E input \in Inputs(nextSample) :
          /\ ProcessInput(input)
          /\ nextSample' = IF input = <<>> THEN nextSample
                           ELSE Advance(nextSample, Len(input[1]))
    /\ UNCHANGED <<resampleRatio, streamVars, workerVars, fillVars, concVars,
                   engVars, capVars>>

InitProc ==
    /\ \E cap \in 2..MaxCapacity : createRingBuffer(cap)
    /\ isInitialized = FALSE
    /\ procControlBuffer = FALSE
    /\ port = <<>>
    /\ resampleBuffer = <<>>
    /\ resampleRatio \in ResampleRatios
    /\ StreamIdle
    /\ FillIdle
    /\ ConcIdle
    /\ EngineIdle
    /\ CaptureIdle
    /\ WorkerIdle
    /\ nextSample = 1
    /\ ret = Ret("new", 0, <<>>)

NextProc ==
    \/ ProcessBlock
    \/ HandleInit
    \/ HandleStop
    \/ resetBuffer
    \/ WorkerDrain

SpecProc == InitProc /\ [][NextProc]_vars

\* the messages of a given type posted by the last callback
Posted(type) == {i \in 1..Len(port) : port[i].type = type}

\* C18: a callback that produced n > 0 samples of which the ring buffer took
\* w < n posts exactly one bufferOverflow with dropped = n - w; with w = n it
\* posts none; either way it returns true
C18_OverflowReported ==
    (ret.op = "process" /\ Len(ret.dest) > 0 /\ ret.n >= 0)
       => /\ ret.n <= Len(ret.dest)
          /\ IF ret.n < Len(ret.dest)
             THEN /\ Cardinality(Posted("bufferOverflow")) = 1
                  /\ \A i \in Posted("bufferOverflow") :
                        port[i].dropped = Len(ret.dest) - ret.n
             ELSE Posted("bufferOverflow") = {}
          /\ ret.keepAlive

\* a callback whose samples fitted only in part
C18_Witness ==
    /\ ret.op = "process"
    /\ ret.n > 0
    /\ ret.n < Len(ret.dest)
    /\ Posted("bufferOverflow") # {}

\* C19: a callback whose input has no channel or a zero-length first channel
\* posts nothing, writes nothing, keeps the resampler's carry-over and
\* returns true; every callback returns true
C19_EmptyInputIgnored ==
    [][\A input \in Inputs(nextSample) :
          ProcessInput(input)
             => /\ ret'.keepAlive
                /\ (input = <<>> \/ Len(input[1]) = 0)
                      => /\ port' = <<>>
                         /\ UNCHANGED <<rbVars, resampleBuffer>>]_vars

\* a callback without input arrived while a sample was carried over
C19_Witness ==
    /\ ret.op = "process"
    /\ port = <<>>
    /\ resampleBuffer # <<>>

\* C20: a callback that produced n > 0 samples posts exactly those samples
\* in one 'samples' message, initialized or not, whatever the ring buffer
\* took of them
C20_SamplesAlwaysPosted ==
    (ret.op = "process" /\ Len(ret.dest) > 0)
       => /\ Cardinality(Posted("samples")) = 1
          /\ \A i \in Posted("samples") : port[i].samples = ret.dest

\* samples were posted after a 'stop' message had detached the writer
C20_Witness ==
    /\ ret.op = "process"
    /\ Len(ret.dest) > 0
    /\ procControlBuffer
    /\ ~isInitialized
    /\ Posted("samples") # {}

\* =========================================================================
\* The audio store starting and stopping capture (the second store of
\* stores/emotionStore.js).  Every call runs up to its next await in one
\* step; the calls suspended at an await are in `calls`.  An AudioContext
\* carries the one worklet node created in it and the source feeding it.
\* =========================================================================
CapFrame ==
    UNCHANGED <<rbVars, procVars, resampleVars, fillVars, nextSample,
                concVars, ret, engVars, workerVars>>

\* new AudioContext(): no worklet node yet, nothing connected
NewContext == [open |-> TRUE, node |-> "none", source |-> "none"]

\* audioContext.close()
CloseContext(ctxs, c) ==
    IF c = 0 THEN ctxs ELSE [ctxs EXCEPT ![c].open = FALSE]

\* track.stop() of a media stream, sourceNode.stop() of a buffer source
StopSource(ctxs, c) ==
    IF c = 0 THEN ctxs ELSE [ctxs EXCEPT ![c].source = "none"]

Suspended(op, pc, c) == [op |-> op, pc |-> pc, ctx |-> c]

\* stopRecording(): the store and the contexts afterwards.  The 'reset'
\* message it posts goes to the node of the context it closes.
stopRecording(a, ctxs) ==
    [audio |-> [a EXCEPT !.audioContext = 0, !.workletNode = 0,
                         !.mediaStream = 0, !.isRecording = FALSE,
                         !.isProcessorReady = FALSE, !.inputMode = "mic"],
     contexts |-> CloseContext(StopSource(ctxs, a.mediaStream),
                               a.audioContext)]

\* stopFilePlayback({clearBuffer: true, releaseContext: true}) up to its
\* await; closing = 0 when it returns without awaiting a close
stopFilePlayback(a, ctxs) ==
    IF ~a.fileBuffer /\ a.fileSourceNode = 0 /\ a.inputMode # "file"
    THEN [audio |-> a, contexts |-> ctxs, closing |-> 0]
    ELSE [audio |-> [a EXCEPT !.fileSourceNode = 0, !.isFilePlaying = FALSE,
                              !.fileBuffer = FALSE, !.inputMode = "mic"],
          contexts |-> CloseContext(StopSource(ctxs, a.fileSourceNode),
                                    a.audioContext),
          closing |-> a.audioContext]

\* after stopFilePlayback: either wait for the close, or create the
\* AudioContext and wait for audioWorklet.addModule
AfterStopFile(op, p) ==
    IF p.closing # 0
    THEN /\ audio' = p.audio
         /\ contexts' = p.contexts
         /\ calls' = Append(calls, Suspended(op, "closing", p.closing))
    ELSE /\ Len(p.contexts) < MaxContexts
         /\ audio' = p.audio
         /\ contexts' = Append(p.contexts, NewContext)
         /\ calls' = Append(calls, Suspended(op, "addModule",
                                             Len(p.contexts) + 1))

\* initialize(): the shared buffer is created, or an API is missing
AudioInitialize ==
    /\ ~audio.isInitialized
    /\ \E ok \in BOOLEAN :
          audio' = IF ok THEN [audio EXCEPT !.sharedBuffer = TRUE,
                                            !.isInitialized = TRUE]
                   ELSE audio
    /\ UNCHANGED <<contexts, calls>>
    /\ CapFrame

\* startRecording() up to its first await
StartRecording ==
    /\ Len(calls) < MaxCalls
    /\ IF ~audio.isInitialized \/ audio.isRecording
       THEN UNCHANGED capVars
       ELSE IF audio.inputMode = "file" \/ audio.fileBuffer
                  \/ audio.isFilePlaying
            THEN AfterStopFile("startRecording",
                               stopFilePlayback(audio, contexts))
            ELSE AfterStopFile("startRecording",
                               [audio |-> audio, contexts |-> contexts,
                                closing |-> 0])
    /\ CapFrame

\* startFilePlayback(audioBuffer) up to its first await
StartFilePlayback ==
    /\ Len(calls) < MaxCalls
    /\ LET a1 == IF ~audio.sharedBuffer
                 THEN [audio EXCEPT !.sharedBuffer = TRUE,
                                    !.isInitialized = TRUE]
                 ELSE audio
           r == IF audio.isRecording THEN stopRecording(a1, contexts)
                ELSE [audio |-> a1, contexts |-> contexts]
       IN  AfterStopFile("startFilePlayback",
                         stopFilePlayback(r.audio, r.contexts))
    /\ CapFrame

\* stopRecording()
StopRecording ==
    /\ audio' = stopRecording(audio, contexts).audio
    /\ contexts' = stopRecording(audio, contexts).contexts
    /\ UNCHANGED calls
    /\ CapFrame

\* stopFilePlayback resumes after `await state.audioContext.close()`, clears
\* the store's context and node, and its caller creates the new AudioContext
CloseResolved(k) ==
    /\ calls[k].pc = "closing"
    /\ Len(contexts) < MaxContexts
    /\ audio' = [audio EXCEPT !.audioContext = 0, !.workletNode = 0,
                              !.isProcessorReady = FALSE]
    /\ contexts' = Append(contexts, NewContext)
    /\ calls' = [calls EXCEPT ![k] = Suspended(calls[k].op, "addModule",
                                               Len(contexts) + 1)]
    /\ CapFrame

\* createWorkletNode resumes after addModule and constructs the node;
\* startRecording goes on to getUserMedia, startFilePlayback stores the
\* context and node and runs playBufferFromOffset(0) up to `await resume()`
ModuleLoaded(k) ==
    /\ calls[k].pc = "addModule"
    /\ LET c == calls[k].ctx
           made == [contexts EXCEPT ![c].node = "created"]
       IN  IF calls[k].op = "startRecording"
           THEN /\ contexts' = made
                /\ calls' = [calls EXCEPT ![k].pc = "getUserMedia"]
                /\ UNCHANGED audio
           ELSE /\ contexts' = StopSource(made, audio.fileSourceNode)
                /\ audio' = [audio EXCEPT !.audioContext = c,
                                          !.workletNode = c,
                                          !.fileBuffer = TRUE,
                                          !.inputMode = "file",
                                          !.isRecording = FALSE,
                                          !.isFilePlaying = FALSE,
                                          !.fileSourceNode = 0]
                /\ calls' = [calls EXCEPT ![k].pc = "resume"]
    /\ CapFrame

\* startRecording resumes after getUserMedia: the microphone is connected
\* to the node of this call and only now isRecording becomes true
MediaGranted(k) ==
    /\ calls[k].pc = "getUserMedia"
    /\ LET c == calls[k].ctx
       IN  IF contexts[c].open
           THEN /\ contexts' = [contexts EXCEPT ![c].source = "mic"]
                /\ audio' = [audio EXCEPT !.audioContext = c,
                                          !.workletNode = c,
                                          !.mediaStream = c,
                                          !.isRecording = TRUE,
                                          !.inputMode = "mic"]
           ELSE UNCHANGED <<contexts, audio>>
    /\ calls' = RemoveAt(calls, k)
    /\ CapFrame

\* getUserMedia rejects: the catch block records the error, the context
\* and the node of this call stay as they are
MediaDenied(k) ==
    /\ calls[k].pc = "getUserMedia"
    /\ calls' = RemoveAt(calls, k)
    /\ UNCHANGED <<audio, contexts>>
    /\ CapFrame

\* playBufferFromOffset resumes after resume(): the buffer source starts
ResumeResolved(k) ==
    /\ calls[k].pc = "resume"
    /\ LET c == calls[k].ctx
       IN  IF contexts[c].open
           THEN /\ contexts' = [contexts EXCEPT ![c].source = "file"]
                /\ audio' = [audio EXCEPT !.fileSourceNode = c,
                                          !.isFilePlaying = TRUE]
           ELSE UNCHANGED <<contexts, audio>>
    /\ calls' = RemoveAt(calls, k)
    /\ CapFrame

\* port.onmessage of the node: 'ready' is answered with 'init' carrying
\* state.sharedBuffer, the processor attaches its writer and answers
\* 'initialized'
Handshake(c) ==
    /\ contexts[c].open
    /\ contexts[c].node = "created"
    /\ audio.sharedBuffer
    /\ contexts' = [contexts EXCEPT ![c].node = "initialized"]
    /\ audio' = [audio EXCEPT !.isProcessorReady = TRUE]
    /\ UNCHANGED calls
    /\ CapFrame

InitCapture == InitStore

NextCapture ==
    \/ AudioInitialize
    \/ StartRecording
    \/ StartFilePlayback
    \/ StopRecording
    \/ \E k \in 1..Len(calls) : CloseResolved(k)
    \/ \E k \in 1..Len(calls) : ModuleLoaded(k)
    \/ \E k \in 1..Len(calls) : MediaGranted(k)
    \/ \E k \in 1..Len(calls) : MediaDenied(k)
    \/ \E k \in 1..Len(calls) : ResumeResolved(k)
    \/ \E c \in 1..Len(contexts) : Handshake(c)

SpecCapture == InitCapture /\ [][NextCapture]_vars

\* a live worklet node initialized with the shared buffer and fed by a source
Writing(c) ==
    /\ contexts[c].open
    /\ contexts[c].node = "initialized"
    /\ contexts[c].source # "none"

\* C12: for every interleaving of startRecording, startFilePlayback and
\* stopRecording, calls issued during an unfinished start included, at most
\* one live worklet node initialized with the shared buffer is fed at a time
C12_SingleProducer ==
    Cardinality({c \in 1..Len(contexts) : Writing(c)}) <= 1

\* C13: a hop that was in flight when resetSession ran leaves no trace when
\* it finishes: the rolling buffer keeps only what arrived after the reset,
\* the smoothing state and the voiced timestamp stay those of the reset
C13_ResetAtomic ==
    [][\A h \in 1..Len(hops) :
          (hops[h].reset /\ hops' = RemoveAt(hops, h))
             => /\ store'.audioBuffer = store.audioBuffer
                /\ probabilitySmoother' = probabilitySmoother
                /\ lastVoicedTimestamp' = lastVoicedTimestamp]_vars

\* C21: a hop whose model invocation fails delivers no prediction, leaves
\* the schedule running, and still advances the rolling buffer by the hop
\* size (the min(hop, length) oldest samples are removed)
C21_FailedHopAdvances ==
    [][InferenceFails
          => /\ prediction' = prediction
             /\ timers' = timers
             /\ store'.audioBuffer
                  = SliceFrom(store.audioBuffer, HOP_SAMPLES)]_vars

\* =========================================================================
\* The hop schedule of the emotion store on its own: the model is loaded,
\* startInference has created the interval timer, and samples keep arriving
\* while processAudio runs on every timer tick.
\* =========================================================================
SamplesArrive == AddSamples(MaxDelivered)

InitHop ==
    /\ createRingBuffer(MaxCapacity)
    /\ ProcessorInit
    /\ FillIdle
    /\ ConcIdle
    /\ CaptureIdle
    /\ WorkerIdle
    /\ nextSample = 1
    /\ ret = Ret("new", 0, <<>>)
    /\ session = "loaded"
    /\ infInitialized = TRUE
    /\ lastVoicedTimestamp = 0
    /\ probabilitySmoother = NoState
    /\ store = [initialState EXCEPT !.isModelLoaded = TRUE,
                                    !.isInferenceRunning = TRUE,
                                    !.inferenceIntervalId = 1,
                                    !.sharedBuffer = "buffer"]
    /\ prediction = NoPrediction
    /\ timers = {1}
    /\ loads = 0
    /\ hops = <<>>
    /\ now = TickMs
    /\ timeline = 0
    /\ hopCount = 0
    /\ timerCount = 1
    /\ awaitFirst = "no"

NextHop ==
    \/ SamplesArrive
    \/ ProcessAudio
    \/ InferenceCompletes
    \/ InferenceFails

SpecHop == InitHop /\ [][NextHop]_vars

\* the samples held by a rolling buffer
Held(buffer) == {buffer[i] : i \in 1..Len(buffer)}

\* C22: whatever the interleaving of timer ticks, arrivals and completions,
\* a sample that a hop advance removed from the rolling buffer never comes
\* back: a sample entering the buffer is one that just arrived, so the
\* windows of later hops only move forward in the audio timeline
C22_NoReprocessing ==
    [][\A sample \in Held(store'.audioBuffer) \ Held(store.audioBuffer) :
          sample.t > timeline]_vars

\* the window of the next hop holds only silent samples
SilentWindow ==
    /\ Len(store.audioBuffer) >= INFERENCE_WINDOW_SAMPLES
    /\ \A i \in 1..Len(store.audioBuffer) :
          i > Len(store.audioBuffer) - INFERENCE_WINDOW_SAMPLES
             => store.audioBuffer[i].a = 0

\* C23: a hop on a window below the noise gate does not invoke the model,
\* emits exactly one result, with isSilence = true, leaves the last-voiced
\* timestamp alone, and removes the min(hop, length) oldest samples from
\* the rolling buffer
C23_SilenceHopAdvances ==
    [][(ProcessAudio /\ store.isInferenceRunning /\ SilentWindow)
          => /\ hops' = hops
             /\ prediction'.delivered
             /\ prediction'.isSilence
             /\ store'.predictionCount = store.predictionCount + 1
             /\ lastVoicedTimestamp' = lastVoicedTimestamp
             /\ store'.audioBuffer
                  = SubSeq(store.audioBuffer,
                           Min(HOP_SAMPLES, Len(store.audioBuffer)) + 1,
                           Len(store.audioBuffer))]_vars

\* a silence hop ran after a voiced hop had set the voiced timestamp
C23_Witness ==
    /\ prediction.delivered
    /\ prediction.isSilence
    /\ lastVoicedTimestamp > 0
    /\ store.predictionCount > 0
    /\ Len(store.audioBuffer) > 0

\* C24: a hop that finds fewer than windowSamples samples invokes no model,
\* emits nothing and changes neither the rolling buffer nor the smoothing
\* state nor the voiced timestamp; a model invocation receives exactly
\* windowSamples samples, the newest of the rolling buffer
C24_WindowExactOrSkip ==
    [][/\ (ProcessAudio
             /\ Len(store.audioBuffer) < INFERENCE_WINDOW_SAMPLES)
          => UNCHANGED <<hops, prediction, store, probabilitySmoother,
                         lastVoicedTimestamp>>
       /\ Len(hops') > Len(hops)
          => LET audioWindow == hops'[Len(hops')].audioWindow
                 offset == Len(store.audioBuffer) - INFERENCE_WINDOW_SAMPLES
             IN  /\ offset >= 0
                 /\ Len(audioWindow) = INFERENCE_WINDOW_SAMPLES
                 /\ \A i \in 1..INFERENCE_WINDOW_SAMPLES :
                       audioWindow[i] = store.audioBuffer[offset + i]]_vars

\* a model invocation is in flight on a buffer longer than the window
C24_Witness ==
    /\ hops # <<>>
    /\ Len(hops[1].state) > INFERENCE_WINDOW_SAMPLES
    /\ Len(hops[1].audioWindow) = INFERENCE_WINDOW_SAMPLES

\* C25: the rolling accumulation buffer never holds more than twice
\* windowSamples samples
C25_RollingBufferBounded ==
    Len(store.audioBuffer) <= 2 * INFERENCE_WINDOW_SAMPLES

\* C30: the samples that addAudioSamples appended while a hop's model
\* invocation was in flight are still in the rolling buffer after that hop
\* has advanced it
C30_ArrivalsSurviveHop ==
    [][InferenceCompletes
         => \A h \in 1..Len(hops) :
               hops' = RemoveAt(hops, h)
               => \A sample \in Held(store.audioBuffer) :
                     sample.t > hops[h].state[Len(hops[h].state)].t
                     => sample \in Held(store'.audioBuffer)]_vars

\* C29: whatever start and stop requests were made, at most one hop schedule
\* (interval timer) is active, and none is active while inference is stopped
C29_SingleHopSchedule ==
    /\ Cardinality(timers) <= 1
    /\ ~store.isInferenceRunning => timers = {}

\* C28: under every interleaving of the producer's write steps and the
\* consumer's read steps, the producer never stores into a slot that holds a
\* published sample the consumer has not released, and the consumer never
\* copies from a slot the producer has not published
C28_NoSlotRace ==
    [][LET unread == {slot \in 0..(capacity - 1) :
                        IF writePtr >= readPtr
                        THEN readPtr <= slot /\ slot < writePtr
                        ELSE slot >= readPtr \/ slot < writePtr}
       IN  /\ P_Copy => prod.writeIndex \notin unread
           /\ C_Copy => cons.readIndex \in unread]_vars

\* both sides have copied and not yet published their cursor, while the
\* unread region wraps
C28_Witness ==
    /\ prod.pc = "store"
    /\ cons.pc = "store"
    /\ writePtr < readPtr

\* ===================================================================
\* The streaming resampler on its own, for ratios that need not be whole
\* numbers. A ratio is the fraction num / den; positions in the source are
\* counted in units of 1 / den and output values are scaled by den, so that
\* the linear interpolation is exact in integers.
\* ===================================================================
MaxStream == 6

\* sampleRate / 16000 for contexts at 24 kHz, 32 kHz and 44.1 kHz
StreamRatios ==
    {[num |-> 3, den |-> 2], [num |-> 2, den |-> 1], [num |-> 441, den |-> 160]}

\* resample(inputSamples) with this.resampleRatio = ratio.num / ratio.den
resampleFraction(carry, ratio, inputSamples) ==
    LET buffer == carry \o inputSamples
        outputSamples == (Len(buffer) * ratio.den) \div ratio.num
        consumed == (outputSamples * ratio.num) \div ratio.den
        Output(i) ==
            LET phase == i * ratio.num
                srcIndexFloor == phase \div ratio.den
                srcIndexCeil == Min(srcIndexFloor + 1, Len(buffer) - 1)
                t == phase % ratio.den
            IN  buffer[srcIndexFloor + 1] * (ratio.den - t)
                  + buffer[srcIndexCeil + 1] * t
    IN  IF Len(buffer) * ratio.den < ratio.num
        THEN [output |-> <<>>, carry |-> buffer]
        ELSE [output |-> [i \in 1..outputSamples |-> Output(i - 1)],
              carry |-> SubSeq(buffer, consumed + 1, Len(buffer))]

\* one process() callback hands its block to resample()
ResampleBlock ==
    /\ \E len \in 1..MaxLen :
         \E inputSamples \in [1..len -> SampleValues] :
            /\ Len(sourceStream) + len <= MaxStream
            /\ LET r == resampleFraction(resampleBuffer, resampleRatio,
                                         inputSamples)
               IN  /\ resampleBuffer' = r.carry
                   /\ resampled' = resampled \o r.output
            /\ sourceStream' = sourceStream \o inputSamples
    /\ UNCHANGED <<rbVars, procVars, resampleRatio, fillVars, nextSample,
                   concVars, ret, engVars, capVars, workerVars>>

InitResample ==
    /\ createRingBuffer(MaxCapacity)
    /\ isInitialized = FALSE
    /\ procControlBuffer = FALSE
    /\ port = <<>>
    /\ resampleBuffer = <<>>
    /\ resampleRatio \in StreamRatios
    /\ StreamIdle
    /\ FillIdle
    /\ ConcIdle
    /\ EngineIdle
    /\ CaptureIdle
    /\ WorkerIdle
    /\ nextSample = 1
    /\ ret = Ret("new", 0, <<>>)

NextResample == ResampleBlock

SpecResample == InitResample /\ [][NextResample]_vars

\* C27: however the stream is split into blocks, the k-th output sample
\* (counted from 0) is the linear interpolation of the whole stream at source
\* position k * ratio; outputs whose right-hand neighbour has not arrived
\* yet are left out of the comparison
C27_PhaseCarried ==
    \A k \in 0..(Len(resampled) - 1) :
        LET position == k * resampleRatio.num
            floor == position \div resampleRatio.den
            t == position % resampleRatio.den
        IN  (floor + 2 <= Len(sourceStream))
            => resampled[k + 1] =
                  sourceStream[floor + 1] * (resampleRatio.den - t)
                    + sourceStream[floor + 2] * t

\* ===================================================================
\* workers/inference.js: the message handler and inferenceLoop.
\* The worker runs one task at a time. A task is a message handler, the
\* continuation of a sleep() timer or the continuation of runInference; it
\* runs until the code awaits something that is still pending. A loop is at
\*   "begin"     inferenceLoop() was called, its first iteration runs in
\*               the task of the 'start' handler,
\*   "continue"  the iteration ended with `continue`: the next one runs in
\*               the same task,
\*   "sleep"     it awaits sleep(100),
\*   "await"     it awaits runInference(windowData).
\* The capture processor fills the ring buffer from its own thread.
\* ===================================================================
MaxPosts == 3
MaxLoops == 2

\* a loop is running in the current task, no other task can start
WorkerBusy ==
    \E l \in 1..Len(worker.loops) :
        worker.loops[l].pc \in {"begin", "continue"}

\* the main thread posts 'start' or 'stop'
PostToWorker ==
    /\ worker.posts < MaxPosts
    /\ \E type \in {"start", "stop"} :
          worker' = [worker EXCEPT !.inbox = Append(@, type),
                                   !.posts = @ + 1]
    /\ UNCHANGED <<rbVars, procVars, fillVars, nextSample, concVars, ret,
                   engVars, capVars, resampleVars>>

\* self.onmessage for 'start' and 'stop'; the model is loaded and the buffer
\* is set
OnWorkerMessage ==
    /\ worker.inbox # <<>>
    /\ ~WorkerBusy
    /\ IF Head(worker.inbox) = "start"
       THEN /\ Len(worker.loops) < MaxLoops
            /\ worker' = [worker EXCEPT
                   !.inbox = Tail(@),
                   !.isRunning = TRUE,
                   !.lastVoicedTimestamp = 0,
                   !.posted = "started",
                   !.loops = Append(@, [pc |-> "begin",
                                        sampleBuffer |-> <<>>])]
       ELSE worker' = [worker EXCEPT
                   !.inbox = Tail(@),
                   !.isRunning = FALSE,
                   !.lastVoicedTimestamp = 0,
                   !.posted = "stopped"]
    /\ UNCHANGED <<rbVars, procVars, fillVars, nextSample, concVars, ret,
                   engVars, capVars, resampleVars>>

\* one pass of `while (isRunning) { ... }`, from the test of isRunning to the
\* next await, to `continue`, or out of the loop
WorkerIterate ==
    /\ \E l \in 1..Len(worker.loops) :
        LET loop == worker.loops[l]
            available == getAvailableSamples(TRUE, writePtr, readPtr, capacity)
            res == readFromBuffer(TRUE, dataBuffer, writePtr, readPtr,
                                  capacity, ZeroArray(available))
            read == IF available > 0 THEN res.n ELSE 0
            pushed_ == loop.sampleBuffer \o SubSeq(res.destination, 1, read)
            sampleBuffer ==
                IF Len(pushed_) > INFERENCE_WINDOW_SAMPLES * 2
                THEN SliceLast(pushed_, INFERENCE_WINDOW_SAMPLES * 2)
                ELSE pushed_
            enough == Len(sampleBuffer) >= INFERENCE_WINDOW_SAMPLES
            windowData == SliceLast(sampleBuffer, INFERENCE_WINDOW_SAMPLES)
            silence == enough /\ BelowNoiseGate(windowData)
        IN  /\ \/ loop.pc \in {"begin", "continue"}
               \/ loop.pc = "sleep" /\ ~WorkerBusy
            /\ IF ~worker.isRunning
               THEN /\ worker' = [worker EXCEPT !.loops = RemoveAt(@, l)]
                    /\ UNCHANGED readPtr
               ELSE /\ readPtr' = IF available > 0 THEN res.readPtr
                                  ELSE readPtr
                    /\ worker' = [worker EXCEPT
                         !.loops[l] =
                            [pc |-> IF silence THEN "continue"
                                    ELSE IF enough THEN "await" ELSE "sleep",
                             sampleBuffer |->
                                IF silence
                                THEN SliceFrom(sampleBuffer, HOP_SAMPLES)
                                ELSE sampleBuffer],
                         !.posted = IF silence THEN "silence" ELSE @,
                         !.lastVoicedTimestamp =
                            IF enough /\ ~silence THEN now ELSE @]
    /\ UNCHANGED <<capacity, writePtr, dataBuffer, procVars, fillVars,
                   nextSample, concVars, ret, engVars, capVars, resampleVars>>

\* runInference(windowData) returned a result or null; the loop goes on to
\* `await sleep(100)`
WorkerInferenceResolves ==
    /\ ~WorkerBusy
    /\ \E l \in 1..Len(worker.loops), result \in BOOLEAN :
        /\ worker.loops[l].pc = "await"
        /\ worker' = [worker EXCEPT
              !.loops[l].pc = "sleep",
              !.loops[l].sampleBuffer =
                  IF result THEN SliceFrom(@, HOP_SAMPLES) ELSE @,
              !.posted = IF result THEN "prediction" ELSE @]
    /\ UNCHANGED <<rbVars, procVars, fillVars, nextSample, concVars, ret,
                   engVars, capVars, resampleVars>>

\* the capture processor writes a block into the ring buffer
CaptureWrites ==
    /\ \E len \in 1..MaxArrive, a \in {0, 1} :
        LET res == writeToBuffer(TRUE, dataBuffer, writePtr, readPtr,
                                 capacity, Message(timeline + 1, len, a))
        IN  /\ timeline + len <= MaxTimeline
            /\ timeline' = timeline + len
            /\ dataBuffer' = res.data
            /\ writePtr' = res.writePtr
    /\ UNCHANGED <<capacity, readPtr, procVars, fillVars, nextSample,
                   concVars, ret, infVars, store, prediction, loopVars,
                   hopCount, timerCount, awaitFirst, capVars, resampleVars,
                   workerVars>>

InitWorkerLoop ==
    /\ createRingBuffer(MaxCapacity)
    /\ isInitialized = TRUE
    /\ procControlBuffer = TRUE
    /\ port = <<>>
    /\ resampleBuffer = <<>>
    /\ resampleRatio = 1
    /\ StreamIdle
    /\ FillIdle
    /\ ConcIdle
    /\ EngineIdle
    /\ CaptureIdle
    /\ WorkerIdle
    /\ nextSample = 1
    /\ ret = Ret("new", 0, <<>>)

NextWorkerLoop ==
    \/ PostToWorker
    \/ OnWorkerMessage
    \/ WorkerIterate
    \/ WorkerInferenceResolves
    \/ CaptureWrites

SpecWorkerLoop == InitWorkerLoop /\ [][NextWorkerLoop]_vars

\* C26: every iteration of the worker's poll loop, whatever branch it
\* takes, yields to the event loop before the next iteration starts: no
\* loop is ever about to iterate again within the task of its last iteration
C26_IterationYields ==
    \A l \in 1..Len(worker.loops) : worker.loops[l].pc # "continue"

====
